---- MODULE Spec2Model ----
(***************************************************************************)
(* Job lifecycle and polling engine of runhuman-action (src/src/runner.ts, *)
(* first revision in the file, lines 1-952): retry policy, deadline        *)
(* calculator, polling loop and the four job runners.                      *)
(*                                                                         *)
(* Conventions for JavaScript values:                                      *)
(*   - an optional number or boolean is None (absent) or Some(v);          *)
(*   - a text is a sequence of fragments, <<>> being the absent or empty   *)
(*     text (both are falsy in JavaScript);                                *)
(*   - an optional identifier or status is a string, Undef when absent.    *)
(* Times are milliseconds.                                                 *)
(***************************************************************************)
EXTENDS Integers, Sequences, FiniteSets, TLC

Undef == "undefined"
None == <<>>
Some(v) == <<v>>
NoText == <<>>

OrElse(opt, dflt) == IF opt = None THEN dflt ELSE opt[1]

Max(a, b) == IF a > b THEN a ELSE b

RECURSIVE Pow2(_)
Pow2(n) == IF n = 0 THEN 1 ELSE 2 * Pow2(n - 1)

(***************************************************************************)
(* Program constants                                                       *)
(***************************************************************************)
POLL_INTERVAL_MS == 10000
DEFAULT_MAX_WAIT_MS == 30 * 60 * 1000
BUFFER_MS == 5 * 60 * 1000
DEFAULT_MAX_RETRIES == 3
DEFAULT_BASE_DELAY_MS == 1000

(***************************************************************************)
(* Bounds of the model                                                     *)
(***************************************************************************)
\* Faults (failed HTTP attempts) injected in one run.
MaxFailures == 5
\* Status fetches of one run that answer at once; the others are slow.
MaxFastFetches == 1
\* Largest maxRetries argument tried on withRetry alone.
MaxRetriesArg == 3
\* The clock stops here: no tick starts later (two hours).
MaxClockMs == 7200000
\* Calls of calculateMaxWaitMs in one session of the calculator alone.
MaxCalculations == 3
\* The longest list of analysed PRs, and of analysed issues, passed to a runner.
MaxItems == 2
\* The longest issue-numbers input tried for collectIssues.
MaxReferences == 3
\* How far below and above the body limit the lengths of the bodies tried go.
MaxOverLimit == 5

\* Round-trip time of a slow status fetch.
SlowFetchMs == 5 * 60 * 1000 + 1000
FetchLatencies(fast) == IF fast < MaxFastFetches THEN {0, SlowFetchMs} ELSE {SlowFetchMs}

(***************************************************************************)
(* types.ts: job statuses                                                  *)
(***************************************************************************)
JobStatus == {"pending", "preparing", "waiting", "working", "creating_issues",
              "completed", "incomplete", "abandoned", "rejected", "untestable", "error"}

TerminalJobStatus == {"completed", "incomplete", "abandoned", "rejected", "error", "untestable"}

isTerminalStatus(status) == status \in TerminalJobStatus

(***************************************************************************)
(* Errors and texts                                                        *)
(***************************************************************************)
\* new Error(message) and the errors fetch() rejects with.
Error(name, message) == [name |-> name, message |-> message]
NoError == Error(Undef, NoText)

\* String(error), as in the template `${error}`: Error.prototype.toString.
ErrorToString(error) ==
    IF error.message = NoText THEN <<error.name>>
    ELSE <<error.name, ": ">> \o error.message

\* message.includes(fragment), on texts cut so that a marker is one fragment.
Includes(message, fragment) == \E i \in DOMAIN message : message[i] = fragment

\* `(${response.status})`
StatusMarker(status) == "(" \o ToString(status) \o ")"

(***************************************************************************)
(* Retry policy                                                            *)
(***************************************************************************)
\* Variant: "Job ... not found" counts as transient.
isTransientErrorWithNotFound(error) ==
    LET message == error.message
    IN  \/ Includes(message, "ECONNRESET") \/ Includes(message, "ETIMEDOUT")
        \/ Includes(message, "socket hang up") \/ Includes(message, "fetch failed")
        \/ Includes(message, "(503)") \/ Includes(message, "(502)")
        \/ Includes(message, "(504)") \/ Includes(message, "(500)")
        \/ Includes(message, "(429)") \/ Includes(message, " not found")

isTransientErrorWithout429(error) ==
    LET message == error.message
        isNetworkError ==
            \/ Includes(message, "ECONNRESET")
            \/ Includes(message, "ETIMEDOUT")
            \/ Includes(message, "socket hang up")
            \/ Includes(message, "fetch failed")
        isTransientHttpError ==
            \/ Includes(message, "(503)")
            \/ Includes(message, "(502)")
            \/ Includes(message, "(504)")
            \/ Includes(message, "(500)")
    IN  isNetworkError \/ isTransientHttpError

isTransientError(error) ==
    LET message == error.message
        isNetworkError ==
            \/ Includes(message, "ECONNRESET")
            \/ Includes(message, "ETIMEDOUT")
            \/ Includes(message, "socket hang up")
            \/ Includes(message, "fetch failed")
        isTransientHttpError ==
            \/ Includes(message, "(503)")
            \/ Includes(message, "(502)")
            \/ Includes(message, "(504)")
            \/ Includes(message, "(500)")
            \/ Includes(message, "(429)")
    IN  isNetworkError \/ isTransientHttpError

\* Variant: a call of withRetry goes on from the attempt the previous call had reached.
withRetryFirstAttemptCarriedOver(previous) == previous

\* for (let attempt = 0; ...): every call of withRetry starts at attempt 0, whatever the
\* previous call reached.
withRetryFirstAttempt(previous) == 0

\* withRetry's catch block: rethrow, or wait and go round the loop again.
withRetryRethrows(error, att, maxR) == ~isTransientError(error) \/ att = maxR

\* Variant: the delay grows linearly.
withRetryDelayLinear(att, baseDelayMs) == baseDelayMs * (att + 1)

\* const delay = baseDelayMs * Math.pow(2, attempt)
withRetryDelay(att, baseDelayMs) == baseDelayMs * Pow2(att)

(***************************************************************************)
(* HTTP exchanges: what the remote side may answer                         *)
(***************************************************************************)
NoSnapshot == [status |-> Undef]
NoBody == [json |-> FALSE, text |-> NoText]

\* fetch() rejected: no response.
NetworkFailure(fetchError, cause) ==
    [kind |-> "network", fetchError |-> fetchError, cause |-> cause,
     status |-> 0, body |-> NoBody, jobId |-> Undef, snapshot |-> NoSnapshot]

\* A response with a status line and a body.
HttpResponse(status, body, jobId, snapshot) ==
    [kind |-> "http", fetchError |-> NoError, cause |-> NoText,
     status |-> status, body |-> body, jobId |-> jobId, snapshot |-> snapshot]

ResponseOk(response) == response.status \in 200..299

\* The outcome of an awaited call: a value or a thrown error.
Returned(value) == [ok |-> TRUE, value |-> value, error |-> NoError]
Thrown(error) == [ok |-> FALSE, value |-> Undef, error |-> error]

(***************************************************************************)
(* Job client                                                              *)
(***************************************************************************)
\* The body of createJob after fetch(): the job id, or the error it throws.
createJob(response) ==
    IF response.kind = "network" THEN Thrown(response.fetchError)
    ELSE IF ~ResponseOk(response) THEN
        LET errorMessage ==
                IF response.body.text = NoText THEN
                    IF response.body.json THEN <<"{}">> ELSE <<"(empty response body)">>
                ELSE response.body.text
        IN  IF response.status = 401 THEN
                Thrown(Error("Error", <<"Authentication failed: Invalid API key. ",
                                        "Make sure your RUNHUMAN_API_KEY secret is set correctly.">>))
            ELSE
                Thrown(Error("Error", <<"Failed to create job ", StatusMarker(response.status), ": ">>
                                      \o errorMessage))
    ELSE IF response.jobId = Undef \/ response.jobId = "" THEN
        Thrown(Error("Error", <<"API did not return a job ID">>))
    ELSE Returned(response.jobId)

\* The body of getJobStatus after fetch(): the snapshot, or the error it throws.
getJobStatus(response, id) ==
    IF response.kind = "network" THEN
        LET errorCause == IF response.cause = NoText THEN NoText
                          ELSE <<" Cause: ">> \o response.cause
        IN  Thrown(Error("Error", <<"Network error checking job status: ">>
                                  \o response.fetchError.message \o errorCause))
    ELSE IF ~ResponseOk(response) THEN
        IF response.status = 404 THEN
            Thrown(Error("Error", <<"Job ", id, " not found">>))
        ELSE
            Thrown(Error("Error", <<"Failed to get job status ", StatusMarker(response.status), ": ">>
                                  \o (IF response.body.text = NoText THEN <<"statusText">>
                                      ELSE response.body.text)))
    ELSE Returned(response.snapshot)

(***************************************************************************)
(* Deadline calculator                                                     *)
(***************************************************************************)
\* Variant: the deadline branch has no floor at the default.
calculateMaxWaitMsNoFloor(targetDurationMinutes, totalExtensionMinutes, responseDeadline, nowMs) ==
    IF responseDeadline # None THEN responseDeadline[1] - nowMs + BUFFER_MS
    ELSE IF targetDurationMinutes # None THEN
        (targetDurationMinutes[1] + OrElse(totalExtensionMinutes, 0)) * 60 * 1000 + BUFFER_MS
    ELSE DEFAULT_MAX_WAIT_MS

\* Variant: the extension is left out of the total.
calculateMaxWaitMsNoExtension(targetDurationMinutes, totalExtensionMinutes, responseDeadline, nowMs) ==
    IF responseDeadline # None THEN
        Max(responseDeadline[1] - nowMs + BUFFER_MS, DEFAULT_MAX_WAIT_MS)
    ELSE IF targetDurationMinutes # None THEN targetDurationMinutes[1] * 60 * 1000 + BUFFER_MS
    ELSE DEFAULT_MAX_WAIT_MS

calculateMaxWaitMs(targetDurationMinutes, totalExtensionMinutes, responseDeadline, nowMs) ==
    IF responseDeadline # None THEN
        LET deadlineMs == responseDeadline[1]
            remainingMs == deadlineMs - nowMs
        IN  Max(remainingMs + BUFFER_MS, DEFAULT_MAX_WAIT_MS)
    ELSE IF targetDurationMinutes # None THEN
        LET totalMinutes == targetDurationMinutes[1] + OrElse(totalExtensionMinutes, 0)
            totalMs == totalMinutes * 60 * 1000
        IN  totalMs + BUFFER_MS
    ELSE DEFAULT_MAX_WAIT_MS

(***************************************************************************)
(* types.ts: JobStatusResponse, RunhumanJobResult                          *)
(***************************************************************************)
ExtractedResult(success, explanation, dataSuccess) ==
    [success |-> success, explanation |-> explanation, data |-> [success |-> dataSuccess]]

JobStatusResponse(status, result, error, reason, costUsd, testDurationSeconds, jobUrl, schedule) ==
    [status |-> status, result |-> result, error |-> error, reason |-> reason,
     costUsd |-> costUsd, testDurationSeconds |-> testDurationSeconds, jobUrl |-> jobUrl,
     targetDurationMinutes |-> schedule[1], totalExtensionMinutes |-> schedule[2],
     responseDeadline |-> schedule[3]]

RunhumanJobResult(success, explanation, data, costUsd, durationSeconds, status, analysis, id, jobUrl) ==
    [success |-> success, explanation |-> explanation, data |-> data, costUsd |-> costUsd,
     durationSeconds |-> durationSeconds, status |-> status, analysis |-> analysis,
     jobId |-> id, jobUrl |-> jobUrl]

NoResult == [status |-> Undef]
NoPollResult == [timedOut |-> Undef]

(***************************************************************************)
(* The snapshots, responses and inputs the model draws from                *)
(***************************************************************************)
\* <<targetDurationMinutes, totalExtensionMinutes, responseDeadline>>
NoSchedule == <<None, None, None>>
TargetOnly == <<Some(5), None, None>>

Schedules ==
    {NoSchedule,
     TargetOnly,
     <<Some(5), Some(30), None>>,
     <<Some(5), Some(60), None>>,
     <<None, None, Some(10 * 60 * 1000)>>,
     <<Some(5), Some(30), Some(60 * 60 * 1000)>>,
     <<None, None, Some(90 * 60 * 1000)>>}

\* Cost, duration and job URL of a snapshot: all absent or all present.
Bare == <<None, None, NoText>>
Full == <<Some(3), Some(180), <<"https://runhuman.com/jobs/job_1">>>>

Results ==
    {None,
     Some(ExtractedResult(None, <<"All tests passed">>, Some(TRUE))),
     Some(ExtractedResult(None, <<"Login button not found">>, Some(FALSE))),
     Some(ExtractedResult(Some(TRUE), <<"All tests passed">>, Some(TRUE))),
     Some(ExtractedResult(Some(FALSE), <<"Login button not found">>, Some(FALSE)))}

\* The remote side of a whole runner call: one schedule, every kind of final snapshot.
RunnerSnapshots ==
    {JobStatusResponse("pending", None, NoText, NoText, None, None, NoText, TargetOnly),
     JobStatusResponse("working", None, NoText, NoText, Some(3), Some(180),
                       <<"https://runhuman.com/jobs/job_1">>, TargetOnly)}
    \cup
    {JobStatusResponse("completed", r, NoText, NoText, p[1], p[2], p[3], TargetOnly) :
        r \in Results \ {None}, p \in {Bare, Full}}
    \cup
    {JobStatusResponse(st, None, e, rs, None, None, NoText, NoSchedule) :
        st \in TerminalJobStatus, e \in {NoText, <<"tester crashed">>},
        rs \in {NoText, <<"no tester available">>}}
    \cup
    {JobStatusResponse(st, None, NoText, NoText, p[1], p[2], p[3], NoSchedule) :
        st \in {"abandoned", "error"}, p \in {Full}}

\* The remote side of the polling loop alone: every schedule on every tick.
PollingSnapshots ==
    {JobStatusResponse("pending", None, NoText, NoText, None, None, NoText, sch) :
        sch \in Schedules}
    \cup
    {JobStatusResponse("working", None, NoText, NoText, None, None, NoText, TargetOnly)}
    \cup
    {JobStatusResponse("completed", None, NoText, NoText, None, None, NoText, sch) :
        sch \in {NoSchedule, <<Some(5), Some(30), None>>}}
    \cup
    {JobStatusResponse("untestable", None, NoText, NoText, None, None, NoText, NoSchedule)}

ErrorBodies ==
    {NoBody,
     [json |-> FALSE, text |-> <<"Bad Request">>],
     [json |-> TRUE, text |-> <<"upstream answered ", "(503)">>]}

CreateFailures ==
    {NetworkFailure(Error("TypeError", <<"fetch failed">>), NoText),
     NetworkFailure(Error("TypeError", <<"Failed to parse URL">>), NoText)}
    \cup {HttpResponse(st, b, Undef, NoSnapshot) : st \in {400, 401, 429, 503}, b \in ErrorBodies}
    \cup {HttpResponse(201, NoBody, "", NoSnapshot)}

\* fetch() rejected after the request was sent: the answer never arrived.
ResponseLost(response) ==
    response.kind = "network" /\ response.fetchError.message = <<"fetch failed">>

StatusFailures ==
    {NetworkFailure(Error("TypeError", <<"fetch failed">>), <<"ECONNRESET">>),
     NetworkFailure(Error("AbortError", <<"This operation was aborted">>), NoText),
     HttpResponse(404, NoBody, Undef, NoSnapshot),
     HttpResponse(500, NoBody, Undef, NoSnapshot),
     HttpResponse(403, [json |-> FALSE, text |-> <<"Forbidden">>], Undef, NoSnapshot)}

Runners == {"description", "issue", "pr", "consolidated"}

ActionInputs(url, description, template, templateContent, targetDurationMinutes) ==
    [url |-> url, description |-> description, template |-> template,
     templateContent |-> templateContent, targetDurationMinutes |-> targetDurationMinutes]

AppUrl == "https://example.com"

AnalyzeResponse(testUrl) == [testUrl |-> testUrl, testInstructions |-> "Verify the change"]

\* The calls tried: <<inputs, analysis>> for each runner.
CallsOf(r) ==
    CASE r = "description" ->
            {<<ActionInputs(AppUrl, "Test the login flow", "", "", Some(5)), AnalyzeResponse("")>>,
             <<ActionInputs(AppUrl, "", "", "", Some(5)), AnalyzeResponse("")>>,
             <<ActionInputs("", "Test the login flow", "", "", Some(5)), AnalyzeResponse("")>>,
             <<ActionInputs("", "", "checkout", "", Some(5)), AnalyzeResponse("")>>}
      [] r = "issue" ->
            {<<ActionInputs(AppUrl, "", "", "", Some(5)), AnalyzeResponse("")>>,
             <<ActionInputs(AppUrl, "", "", "", Some(5)), AnalyzeResponse("https://preview.example.com")>>,
             <<ActionInputs("", "", "", "", Some(5)), AnalyzeResponse("https://preview.example.com")>>,
             <<ActionInputs("", "", "", "", Some(5)), AnalyzeResponse("")>>}
      [] OTHER ->
            {<<ActionInputs(AppUrl, "", "", "", Some(5)), AnalyzeResponse("")>>,
             <<ActionInputs("", "", "", "", Some(5)), AnalyzeResponse("")>>}

(***************************************************************************)
(* Job runners: request construction                                       *)
(***************************************************************************)
CreateJobRequest(url, description, template, templateContent, targetDurationMinutes) ==
    [url |-> url, description |-> description, template |-> template,
     templateContent |-> templateContent, targetDurationMinutes |-> targetDurationMinutes]

NoRequest == [url |-> Undef]

\* Variant: the URL is not validated.
buildJobRequestWithoutUrlCheck(inp) ==
    LET hasTemplate == inp.template # "" \/ inp.templateContent # ""
    IN  IF inp.description = "" /\ ~hasTemplate THEN
            Thrown(Error("Error",
                         <<"Description is required - provide via description input or template">>))
        ELSE Returned(CreateJobRequest(inp.url, inp.description, inp.template,
                                       inp.templateContent, inp.targetDurationMinutes))

buildJobRequest(inp) ==
    LET hasTemplate == inp.template # "" \/ inp.templateContent # ""
    IN  IF inp.url = "" /\ ~hasTemplate THEN
            Thrown(Error("Error", <<"URL is required - provide via url input or template">>))
        ELSE IF inp.description = "" /\ ~hasTemplate THEN
            Thrown(Error("Error",
                         <<"Description is required - provide via description input or template">>))
        ELSE Returned(CreateJobRequest(inp.url, inp.description, inp.template,
                                       inp.templateContent, inp.targetDurationMinutes))

\* Variant: the configured URL is preferred to the analysis's.
TestUrlConfiguredFirst(r, inp, an) == IF r = "issue" /\ inp.url = "" THEN an.testUrl ELSE inp.url

\* analysis.testUrl || inputs.url in runTestForIssue, inputs.url in the others.
TestUrl(r, inp, an) == IF r = "issue" /\ an.testUrl # "" THEN an.testUrl ELSE inp.url

\* The request of the runners that test analysed items.
ItemJobRequest(r, inp, an) ==
    CreateJobRequest(TestUrl(r, inp, an), an.testInstructions, "", "", inp.targetDurationMinutes)

(***************************************************************************)
(* Job runners: from the poll outcome to the result, one per runner        *)
(***************************************************************************)
runTestForIssueResult(finalStatus, timedOut, id, analysis) ==
    LET jobUrl == finalStatus.jobUrl
        costUsd == OrElse(finalStatus.costUsd, 0)
        durationSeconds == OrElse(finalStatus.testDurationSeconds, 0)
    IN  IF timedOut THEN
            RunhumanJobResult(Some(FALSE), <<"Test timed out waiting for tester response">>, None,
                              costUsd, durationSeconds, "timeout", Some(analysis), id, jobUrl)
        ELSE IF finalStatus.status = "completed" /\ finalStatus.result # None THEN
            RunhumanJobResult(finalStatus.result[1].success, finalStatus.result[1].explanation,
                              Some(finalStatus.result[1].data),
                              costUsd, durationSeconds, "completed", Some(analysis), id, jobUrl)
        ELSE IF finalStatus.status = "abandoned" THEN
            RunhumanJobResult(Some(FALSE),
                              IF finalStatus.reason # NoText THEN finalStatus.reason
                              ELSE <<"Test was abandoned">>,
                              None, costUsd, durationSeconds, "abandoned", Some(analysis), id, jobUrl)
        ELSE
            RunhumanJobResult(Some(FALSE),
                              IF finalStatus.error # NoText THEN finalStatus.error
                              ELSE IF finalStatus.reason # NoText THEN finalStatus.reason
                              ELSE <<"Job ended with status: ", finalStatus.status>>,
                              None, costUsd, durationSeconds, "error", Some(analysis), id, jobUrl)

\* Variant: a timed-out job is reported with success true.
runTestForPrResultTimeoutSucceeds(finalStatus, timedOut, id, analysis) ==
    LET mapped == runTestForIssueResult(finalStatus, timedOut, id, analysis)
    IN  IF mapped.status = "timeout" THEN [mapped EXCEPT !.success = Some(TRUE), !.analysis = None]
        ELSE [mapped EXCEPT !.analysis = None]

\* Variant: an abandoned job is reported with status error.
runTestForPrResultAbandonedAsError(finalStatus, timedOut, id, analysis) ==
    LET mapped == runTestForIssueResult(finalStatus, timedOut, id, analysis)
    IN  IF mapped.status = "abandoned" THEN [mapped EXCEPT !.status = "error", !.analysis = None]
        ELSE [mapped EXCEPT !.analysis = None]

runTestForPrResult(finalStatus, timedOut, id, analysis) ==
    LET jobUrl == finalStatus.jobUrl
        costUsd == OrElse(finalStatus.costUsd, 0)
        durationSeconds == OrElse(finalStatus.testDurationSeconds, 0)
    IN  IF timedOut THEN
            RunhumanJobResult(Some(FALSE), <<"Test timed out waiting for tester response">>, None,
                              costUsd, durationSeconds, "timeout", None, id, jobUrl)
        ELSE IF finalStatus.status = "completed" /\ finalStatus.result # None THEN
            RunhumanJobResult(finalStatus.result[1].success, finalStatus.result[1].explanation,
                              Some(finalStatus.result[1].data),
                              costUsd, durationSeconds, "completed", None, id, jobUrl)
        ELSE IF finalStatus.status = "abandoned" THEN
            RunhumanJobResult(Some(FALSE),
                              IF finalStatus.reason # NoText THEN finalStatus.reason
                              ELSE <<"Test was abandoned">>,
                              None, costUsd, durationSeconds, "abandoned", None, id, jobUrl)
        ELSE
            RunhumanJobResult(Some(FALSE),
                              IF finalStatus.error # NoText THEN finalStatus.error
                              ELSE IF finalStatus.reason # NoText THEN finalStatus.reason
                              ELSE <<"Job ended with status: ", finalStatus.status>>,
                              None, costUsd, durationSeconds, "error", None, id, jobUrl)

\* Variant: a completed job is reported as completed whether it has a result or not.
runTestWithDescriptionResultCompletedAnyway(finalStatus, timedOut, id, analysis) ==
    LET mapped == runTestForIssueResult(finalStatus, timedOut, id, analysis)
    IN  IF ~timedOut /\ finalStatus.status = "completed" THEN
            [mapped EXCEPT !.status = "completed", !.analysis = None]
        ELSE [mapped EXCEPT !.analysis = None]

\* Variant: the result carries neither the job id nor the job URL.
runTestWithDescriptionResultWithoutJob(finalStatus, timedOut, id, analysis) ==
    [runTestForIssueResult(finalStatus, timedOut, id, analysis)
        EXCEPT !.analysis = None, !.jobId = Undef, !.jobUrl = NoText]

runTestWithDescriptionResult(finalStatus, timedOut, id, analysis) ==
    LET jobUrl == finalStatus.jobUrl
        costUsd == OrElse(finalStatus.costUsd, 0)
        durationSeconds == OrElse(finalStatus.testDurationSeconds, 0)
    IN  IF timedOut THEN
            RunhumanJobResult(Some(FALSE), <<"Test timed out waiting for tester response">>, None,
                              costUsd, durationSeconds, "timeout", None, id, jobUrl)
        ELSE IF finalStatus.status = "completed" /\ finalStatus.result # None THEN
            RunhumanJobResult(finalStatus.result[1].success, finalStatus.result[1].explanation,
                              Some(finalStatus.result[1].data),
                              costUsd, durationSeconds, "completed", None, id, jobUrl)
        ELSE IF finalStatus.status = "abandoned" THEN
            RunhumanJobResult(Some(FALSE),
                              IF finalStatus.reason # NoText THEN finalStatus.reason
                              ELSE <<"Test was abandoned">>,
                              None, costUsd, durationSeconds, "abandoned", None, id, jobUrl)
        ELSE
            RunhumanJobResult(Some(FALSE),
                              IF finalStatus.error # NoText THEN finalStatus.error
                              ELSE IF finalStatus.reason # NoText THEN finalStatus.reason
                              ELSE <<"Job ended with status: ", finalStatus.status>>,
                              None, costUsd, durationSeconds, "error", None, id, jobUrl)

\* Variant: the reason is preferred to the error.
runConsolidatedTestResultReasonFirst(finalStatus, timedOut, id, analysis) ==
    LET jobUrl == finalStatus.jobUrl
        costUsd == OrElse(finalStatus.costUsd, 0)
        durationSeconds == OrElse(finalStatus.testDurationSeconds, 0)
    IN  IF timedOut THEN
            RunhumanJobResult(Some(FALSE), <<"Test timed out waiting for tester response">>, None,
                              costUsd, durationSeconds, "timeout", None, id, jobUrl)
        ELSE IF finalStatus.status = "completed" /\ finalStatus.result # None THEN
            RunhumanJobResult(finalStatus.result[1].success, finalStatus.result[1].explanation,
                              Some(finalStatus.result[1].data),
                              costUsd, durationSeconds, "completed", None, id, jobUrl)
        ELSE IF finalStatus.status = "abandoned" THEN
            RunhumanJobResult(Some(FALSE),
                              IF finalStatus.reason # NoText THEN finalStatus.reason
                              ELSE <<"Test was abandoned">>,
                              None, costUsd, durationSeconds, "abandoned", None, id, jobUrl)
        ELSE
            RunhumanJobResult(Some(FALSE),
                              IF finalStatus.reason # NoText THEN finalStatus.reason
                              ELSE IF finalStatus.error # NoText THEN finalStatus.error
                              ELSE <<"Job ended with status: ", finalStatus.status>>,
                              None, costUsd, durationSeconds, "error", None, id, jobUrl)

runConsolidatedTestResult(finalStatus, timedOut, id, analysis) ==
    LET jobUrl == finalStatus.jobUrl
        costUsd == OrElse(finalStatus.costUsd, 0)
        durationSeconds == OrElse(finalStatus.testDurationSeconds, 0)
    IN  IF timedOut THEN
            RunhumanJobResult(Some(FALSE), <<"Test timed out waiting for tester response">>, None,
                              costUsd, durationSeconds, "timeout", None, id, jobUrl)
        ELSE IF finalStatus.status = "completed" /\ finalStatus.result # None THEN
            RunhumanJobResult(finalStatus.result[1].success, finalStatus.result[1].explanation,
                              Some(finalStatus.result[1].data),
                              costUsd, durationSeconds, "completed", None, id, jobUrl)
        ELSE IF finalStatus.status = "abandoned" THEN
            RunhumanJobResult(Some(FALSE),
                              IF finalStatus.reason # NoText THEN finalStatus.reason
                              ELSE <<"Test was abandoned">>,
                              None, costUsd, durationSeconds, "abandoned", None, id, jobUrl)
        ELSE
            RunhumanJobResult(Some(FALSE),
                              IF finalStatus.error # NoText THEN finalStatus.error
                              ELSE IF finalStatus.reason # NoText THEN finalStatus.reason
                              ELSE <<"Job ended with status: ", finalStatus.status>>,
                              None, costUsd, durationSeconds, "error", None, id, jobUrl)

\* The catch block of a runner: `Error: ${error}`.
CaughtResult(r, error, analysis) ==
    RunhumanJobResult(Some(FALSE), <<"Error: ">> \o ErrorToString(error), None, 0, 0, "error",
                      IF r = "issue" THEN Some(analysis) ELSE None, Undef, NoText)

\* The early return of the runners that need a test URL.
NoTestUrlResult(r, analysis) ==
    RunhumanJobResult(Some(FALSE), <<"No test URL available">>, None, 0, 0, "error",
                      IF r = "issue" THEN Some(analysis) ELSE None, Undef, NoText)

MappedResult(r, finalStatus, timedOut, id, analysis) ==
    CASE r = "issue" -> runTestForIssueResult(finalStatus, timedOut, id, analysis)
      [] r = "pr" -> runTestForPrResult(finalStatus, timedOut, id, analysis)
      [] r = "description" -> runTestWithDescriptionResult(finalStatus, timedOut, id, analysis)
      [] r = "consolidated" -> runConsolidatedTestResult(finalStatus, timedOut, id, analysis)

(***************************************************************************)
(* State                                                                   *)
(***************************************************************************)
VARIABLES
    runner,       \* which job runner was called
    inputs,       \* its ActionInputs
    analysis,     \* the analysis passed to runTestForIssue
    pc,           \* where the call is: start, create, status, done, thrown; retry, returned
    now,          \* Date.now()
    request,      \* the CreateJobRequest built
    jobId,        \* what createJob returned
    maxRetries,   \* withRetry: its argument
    baseDelayMs,  \* withRetry: its argument
    retryWarnings, \* "Transient error ... Retrying" warnings logged so far
    attempt,      \* withRetry: the loop variable
    lastError,    \* withRetry: the last error caught
    calls,        \* withRetry: invocations of the operation in this call
    startTime,    \* pollForCompletion: startTime
    elapsed,      \* pollForCompletion: elapsed, taken at the top of the tick
    maxWaitMs,    \* pollForCompletion: maxWaitMs
    lastStatus,   \* pollForCompletion: lastStatus
    fetched,      \* the snapshot of the last successful status fetch
    maxReturned,  \* the largest of the initial maxWaitMs and calculateMaxWaitMs's results
    pollResult,   \* what pollForCompletion returned
    caught,       \* the error the runner's catch block received
    result,       \* the RunhumanJobResult returned to the caller
    thrown,       \* the error that reached the caller
    posts,        \* POST /api/jobs requests sent
    gets,         \* GET status requests sent
    failures,     \* failed HTTP attempts so far
    fastFetches,  \* status fetches answered at once so far
    httpStatus,   \* status of the last HTTP response (0: none, fetch rejected)
    jobs,         \* jobs the remote service has created for this call
    calculatedMaxWaitMs, \* pollForCompletion: newMaxWaitMs of the last tick
    phase,        \* run(): where the action is
    failOn,       \* inputs.failOnError, inputs.failOnFailure, inputs.failOnTimeout
    prNumbers,    \* inputs.prNumbers
    issueNumbers, \* inputs.issueNumbers
    issues,       \* run(): what collectIssues returned
    testablePrs,  \* run(): PRs the analyzer found testable
    notTestablePrs, \* run(): PRs the analyzer found not testable
    testable,     \* run(): issues the analyzer found testable
    notTestable,  \* run(): issues the analyzer found not testable
    hasError,     \* run(): hasError
    timedOutIssues, \* run(): timedOutIssues
    timedOutPrs,  \* run(): timedOutPrs
    failedIssues, \* run(): failedIssues
    failedPrs,    \* run(): failedPrs
    passedIssues, \* run(): passedIssues
    passedPrs,    \* run(): passedPrs
    labels,       \* applyLabelsForOutcome calls made: <<issue number, outcome>>
    outputs,      \* what setOutputs received
    setFailedCalls, \* the messages core.setFailed received
    analyzedPrs,  \* runConsolidatedTest: prs, runTestForPr: pr and analysis
    analyzedIssues, \* runConsolidatedTest: issues, runTestForIssue: issue and analysis
    runnerCalls,  \* run(): the runner calls made so far, in the order they were made
    statusFetches, \* the status fetches sent: the job id and the runner call that sent it
    ticks,        \* pollForCompletion: passes of while (true) begun
    sleeps        \* pollForCompletion: sleep(POLL_INTERVAL_MS) calls awaited

vars == <<runner, inputs, analysis, pc, now, request, jobId, maxRetries, attempt, lastError,
          calls, startTime, elapsed, maxWaitMs, lastStatus, fetched, maxReturned, pollResult,
          caught, result, thrown, posts, gets, failures, fastFetches,
          baseDelayMs, retryWarnings, httpStatus, jobs, calculatedMaxWaitMs,
          phase, failOn, prNumbers, issueNumbers, issues, testablePrs, notTestablePrs, testable,
          notTestable, hasError, timedOutIssues, timedOutPrs, failedIssues, failedPrs, passedIssues,
          passedPrs, labels, outputs, setFailedCalls, analyzedPrs, analyzedIssues, runnerCalls, statusFetches,
          ticks, sleeps>>

itemVars == <<prNumbers, issueNumbers, issues, testablePrs, notTestablePrs, testable, notTestable,
             analyzedPrs, analyzedIssues>>
tallyVars == <<hasError, timedOutIssues, timedOutPrs, failedIssues, failedPrs, passedIssues,
              passedPrs>>
loopVars == <<runnerCalls, statusFetches>>
runVars == <<phase, failOn, itemVars, tallyVars, labels, outputs, setFailedCalls, loopVars>>
callVars == <<runner, inputs, analysis, runVars>>
retryVars == <<maxRetries, baseDelayMs, retryWarnings, attempt, lastError, calls>>
tickVars == <<ticks, sleeps>>
pollVars == <<startTime, elapsed, maxWaitMs, calculatedMaxWaitMs, lastStatus, fetched, maxReturned,
             pollResult, tickVars>>
httpVars == <<posts, gets, failures, fastFetches, httpStatus, jobs>>

NoOutputs == [status |-> Undef]

\* No list of analysed items has been passed to a runner.
ItemsNotPassed ==
    /\ analyzedPrs = <<>>
    /\ analyzedIssues = <<>>

\* run() has done nothing yet.
RunNotStarted ==
    /\ issues = <<>>
    /\ testablePrs = <<>>
    /\ notTestablePrs = <<>>
    /\ testable = <<>>
    /\ notTestable = <<>>
    /\ hasError = FALSE
    /\ timedOutIssues = <<>>
    /\ timedOutPrs = <<>>
    /\ failedIssues = <<>>
    /\ failedPrs = <<>>
    /\ passedIssues = <<>>
    /\ passedPrs = <<>>
    /\ labels = {}
    /\ outputs = NoOutputs
    /\ runnerCalls = <<>>
    /\ statusFetches = {}
    /\ setFailedCalls = <<>>

\* A runner, withRetry or calculateMaxWaitMs is exercised on its own: run() is not running.
NotRunning ==
    /\ phase = "none"
    /\ failOn = [failOnError |-> TRUE, failOnFailure |-> TRUE, failOnTimeout |-> FALSE]
    /\ prNumbers = <<>>
    /\ issueNumbers = <<>>
    /\ RunNotStarted
    /\ ItemsNotPassed

Idle ==
    /\ pc \in {"start", "retry", "calculate"}
    /\ now = 0
    /\ request = NoRequest
    /\ jobId = Undef
    /\ attempt = 0
    /\ lastError = NoError
    /\ calls = 0
    /\ startTime = 0
    /\ elapsed = 0
    /\ maxWaitMs = 0
    /\ lastStatus = Undef
    /\ fetched = NoSnapshot
    /\ maxReturned = 0
    /\ pollResult = NoPollResult
    /\ caught = NoError
    /\ result = NoResult
    /\ thrown = NoError
    /\ posts = 0
    /\ gets = 0
    /\ failures = 0
    /\ fastFetches = 0
    /\ retryWarnings = 0
    /\ httpStatus = 0
    /\ jobs = 0
    /\ calculatedMaxWaitMs = 0
    /\ ticks = 0
    /\ sleeps = 0

\* A runner has just been called.
Init ==
    /\ runner \in Runners
    /\ \E call \in CallsOf(runner) :
        /\ inputs = call[1]
        /\ analysis = call[2]
    /\ pc = "start"
    /\ maxRetries = DEFAULT_MAX_RETRIES
    /\ baseDelayMs = DEFAULT_BASE_DELAY_MS
    /\ Idle
    /\ NotRunning

(***************************************************************************)
(* Entering a runner: the checks before the job is created                 *)
(***************************************************************************)
\* withRetry(() => createJob(...)) is entered.
BeginCreate(req) ==
    /\ request' = req
    /\ pc' = "create"
    /\ maxRetries' = DEFAULT_MAX_RETRIES
    /\ baseDelayMs' = DEFAULT_BASE_DELAY_MS
    /\ attempt' = withRetryFirstAttempt(attempt)
    /\ calls' = 0
    /\ lastError' = NoError
    /\ UNCHANGED <<caught, result, thrown, retryWarnings>>

\* The runner returns res after catching error (NoError: an early return).
ReturnEarly(error, res) ==
    /\ caught' = error
    /\ result' = res
    /\ pc' = "done"
    /\ UNCHANGED <<request, thrown, retryVars>>

\* Variant: a template name does not count as enough.
hasEnoughInfoIgnoresTemplate(inp) == inp.description # "" \/ inp.templateContent # ""

\* runTestWithDescription: "Check if we have enough info to create a job".
hasEnoughInfo(inp) ==
    LET hasDescription == inp.description # ""
        hasTemplate == inp.template # ""
        hasTemplateContent == inp.templateContent # ""
    IN  ~(~hasDescription /\ ~hasTemplate /\ ~hasTemplateContent)

runTestWithDescription ==
    /\ pc = "start"
    /\ runner = "description"
    /\ LET built == buildJobRequest(inputs)
       IN  IF ~hasEnoughInfo(inputs) THEN
               /\ thrown' = Error("Error", <<"Description is required when no issues are provided. ",
                                             "Provide via description input, template, or template-file.">>)
               /\ pc' = "thrown"
               /\ UNCHANGED <<request, caught, result, retryVars>>
           ELSE IF built.ok THEN BeginCreate(built.value)
           ELSE ReturnEarly(built.error, CaughtResult(runner, built.error, analysis))
    /\ UNCHANGED <<callVars, now, jobId, pollVars, httpVars>>

\* runTestForIssue, runTestForPr and runConsolidatedTest up to the try block.
EnterItemRunner(r) ==
    /\ pc = "start"
    /\ runner = r
    /\ IF TestUrl(r, inputs, analysis) = "" THEN ReturnEarly(NoError, NoTestUrlResult(r, analysis))
       ELSE BeginCreate(ItemJobRequest(r, inputs, analysis))
    /\ UNCHANGED <<callVars, now, jobId, pollVars, httpVars>>

runTestForIssue == EnterItemRunner("issue")
runTestForPr == EnterItemRunner("pr")
runConsolidatedTest == EnterItemRunner("consolidated")

(***************************************************************************)
(* Polling loop: the pieces of pollForCompletion                           *)
(***************************************************************************)
\* Variant: the loop sleeps twice between two ticks.
sleepTwice(nowMs, ms) == nowMs + 2 * ms

\* await sleep(ms): the clock when the timer has fired.
sleep(nowMs, ms) == nowMs + ms

\* let maxWaitMs = initialTargetMinutes ? ... : DEFAULT_MAX_WAIT_MS
pollInitialMaxWaitMs(initialTargetMinutes) ==
    IF initialTargetMinutes # None /\ initialTargetMinutes[1] # 0 THEN
        initialTargetMinutes[1] * 60 * 1000 + BUFFER_MS
    ELSE DEFAULT_MAX_WAIT_MS

\* Variant: the new value is assigned without the comparison.
pollExtendedMaxWaitMsAlwaysAssigns(current, newMaxWaitMs) == newMaxWaitMs

\* if (newMaxWaitMs > maxWaitMs) maxWaitMs = newMaxWaitMs
pollExtendedMaxWaitMs(current, newMaxWaitMs) ==
    IF newMaxWaitMs > current THEN newMaxWaitMs ELSE current

\* Variant: the timeout compares with the default limit, not with maxWaitMs.
pollDecisionFixedLimit(status, elapsedMs, maxWait) ==
    IF isTerminalStatus(status) THEN "terminal"
    ELSE IF elapsedMs > DEFAULT_MAX_WAIT_MS THEN "timeout"
    ELSE "sleep"

\* Variant: the timeout check comes before the terminal check.
pollDecisionTimeoutFirst(status, elapsedMs, maxWait) ==
    IF elapsedMs > maxWait THEN "timeout"
    ELSE IF isTerminalStatus(status) THEN "terminal"
    ELSE "sleep"

\* Variant: the loop has no timeout check.
pollDecisionNoTimeout(status, elapsedMs, maxWait) ==
    IF isTerminalStatus(status) THEN "terminal" ELSE "sleep"

\* The end of a tick: return the terminal snapshot, return timed out, or sleep.
pollDecision(status, elapsedMs, maxWait) ==
    IF isTerminalStatus(status) THEN "terminal"
    ELSE IF elapsedMs > maxWait THEN "timeout"
    ELSE "sleep"

PollResult(status, timedOut) == [status |-> status, timedOut |-> timedOut]

(***************************************************************************)
(* Creating the job: one attempt of withRetry(() => createJob(...))        *)
(***************************************************************************)
CreateJobReturns ==
    /\ pc = "create"
    /\ LET out == createJob(HttpResponse(201, NoBody, "job_1", NoSnapshot))
       IN  /\ out.ok
           /\ jobId' = out.value
    /\ posts' = posts + 1
    \* pollForCompletion(inputs, jobId, inputs.targetDurationMinutes) starts its first tick
    /\ startTime' = now
    /\ elapsed' = 0
    /\ maxWaitMs' = pollInitialMaxWaitMs(inputs.targetDurationMinutes)
    /\ maxReturned' = pollInitialMaxWaitMs(inputs.targetDurationMinutes)
    /\ lastStatus' = Undef
    /\ ticks' = 1
    /\ pc' = "status"
    /\ maxRetries' = DEFAULT_MAX_RETRIES
    /\ baseDelayMs' = DEFAULT_BASE_DELAY_MS
    /\ attempt' = withRetryFirstAttempt(attempt)
    /\ calls' = 0
    /\ lastError' = NoError
    /\ httpStatus' = 201
    /\ jobs' = jobs + 1
    /\ UNCHANGED <<callVars, now, request, fetched, calculatedMaxWaitMs, pollResult, caught, result,
                   thrown, retryWarnings, gets, failures, fastFetches, sleeps>>

CreateJobThrows ==
    /\ pc = "create"
    /\ failures < MaxFailures
    /\ \E response \in CreateFailures :
        LET out == createJob(response)
        IN  /\ ~out.ok
            /\ httpStatus' = response.status
            \* a response lost on the way back: the service may have created the job
            /\ \/ jobs' = jobs
               \/ ResponseLost(response) /\ jobs' = jobs + 1
            /\ lastError' = out.error
            /\ IF withRetryRethrows(out.error, attempt, maxRetries) THEN
                   \* caught by the runner
                   /\ caught' = out.error
                   /\ result' = CaughtResult(runner, out.error, analysis)
                   /\ pc' = "done"
                   /\ UNCHANGED <<attempt, now, retryWarnings>>
               ELSE
                   /\ attempt' = attempt + 1
                   /\ retryWarnings' = retryWarnings + 1
                   /\ now' = now + withRetryDelay(attempt, baseDelayMs)
                   /\ UNCHANGED <<caught, result, pc>>
    /\ calls' = calls + 1
    /\ posts' = posts + 1
    /\ failures' = failures + 1
    /\ UNCHANGED <<callVars, request, jobId, maxRetries, baseDelayMs, pollVars, thrown, gets,
                   fastFetches>>

(***************************************************************************)
(* One poll tick: withRetry(() => getJobStatus(...)) and what follows it    *)
(***************************************************************************)
GetJobStatusThrows ==
    /\ pc = "status"
    /\ failures < MaxFailures
    /\ \E response \in StatusFailures :
        LET out == getJobStatus(response, jobId)
        IN  /\ ~out.ok
            /\ httpStatus' = response.status
            /\ lastError' = out.error
            /\ IF withRetryRethrows(out.error, attempt, maxRetries) THEN
                   \* pollForCompletion rejects; caught by the runner
                   /\ caught' = out.error
                   /\ result' = CaughtResult(runner, out.error, analysis)
                   /\ pc' = "done"
                   /\ UNCHANGED <<attempt, now, retryWarnings>>
               ELSE
                   /\ attempt' = attempt + 1
                   /\ retryWarnings' = retryWarnings + 1
                   /\ now' = now + withRetryDelay(attempt, baseDelayMs)
                   /\ UNCHANGED <<caught, result, pc>>
    /\ calls' = calls + 1
    /\ gets' = gets + 1
    /\ failures' = failures + 1
    /\ UNCHANGED <<callVars, request, jobId, maxRetries, baseDelayMs, pollVars, thrown, posts,
                   fastFetches, jobs>>

\* A tick whose fetch succeeds, against a remote that answers with one of snapshots.
PollTick(snapshots) ==
    /\ pc = "status"
    /\ now < MaxClockMs
    /\ \E snapshot \in snapshots, latency \in FetchLatencies(fastFetches) :
        LET out == getJobStatus(HttpResponse(200, NoBody, Undef, snapshot), jobId)
            status == out.value
            nowMs == now + latency
            calculated == calculateMaxWaitMs(status.targetDurationMinutes,
                                             status.totalExtensionMinutes,
                                             status.responseDeadline, nowMs)
            extended == pollExtendedMaxWaitMs(maxWaitMs, calculated)
        IN  /\ out.ok
            /\ fastFetches' = IF latency = 0 THEN fastFetches + 1 ELSE fastFetches
            /\ fetched' = status
            /\ calculatedMaxWaitMs' = calculated
            /\ maxReturned' = Max(maxReturned, calculated)
            /\ maxWaitMs' = extended
            /\ lastStatus' = status.status
            /\ IF pollDecision(status.status, elapsed, extended) # "sleep" THEN
                   \* pollForCompletion returns; the runner maps the outcome and returns
                   LET timedOut == pollDecision(status.status, elapsed, extended) = "timeout"
                   IN  /\ pollResult' = PollResult(status, timedOut)
                       /\ result' = MappedResult(runner, status, timedOut, jobId, analysis)
                       /\ pc' = "done"
                       /\ now' = nowMs
                       /\ calls' = calls + 1
                       /\ UNCHANGED <<elapsed, attempt, lastError, tickVars>>
               ELSE
                   \* await sleep(POLL_INTERVAL_MS), then the top of the next tick
                   /\ now' = sleep(nowMs, POLL_INTERVAL_MS)
                   /\ elapsed' = sleep(nowMs, POLL_INTERVAL_MS) - startTime
                   /\ sleeps' = sleeps + 1
                   /\ ticks' = ticks + 1
                   /\ attempt' = withRetryFirstAttempt(attempt)
                   /\ calls' = 0
                   /\ lastError' = NoError
                   /\ UNCHANGED <<pollResult, result, pc>>
    /\ gets' = gets + 1
    /\ httpStatus' = 200
    /\ UNCHANGED <<callVars, request, jobId, maxRetries, baseDelayMs, retryWarnings, startTime,
                   caught, thrown, posts, failures, jobs>>

RunnerPollTick == PollTick(RunnerSnapshots)

Next ==
    \/ runTestWithDescription
    \/ runTestForIssue
    \/ runTestForPr
    \/ runConsolidatedTest
    \/ CreateJobReturns
    \/ CreateJobThrows
    \/ GetJobStatusThrows
    \/ RunnerPollTick

\* A whole call of a runner.
Spec == Init /\ [][Next]_vars

(***************************************************************************)
(* The polling phase alone: createJob has just returned job_1 on its first *)
(* attempt and the remote may report any schedule on any tick.             *)
(***************************************************************************)
InitPolling ==
    /\ runner = "consolidated"
    /\ analysis = AnalyzeResponse("")
    /\ inputs \in {ActionInputs(AppUrl, "", "", "", t) : t \in {None, Some(5)}}
    /\ pc = "status"
    /\ now = 0
    /\ request = ItemJobRequest(runner, inputs, analysis)
    /\ jobId = "job_1"
    /\ maxRetries = DEFAULT_MAX_RETRIES
    /\ baseDelayMs = DEFAULT_BASE_DELAY_MS
    /\ attempt = 0
    /\ lastError = NoError
    /\ calls = 0
    /\ startTime = 0
    /\ elapsed = 0
    /\ maxWaitMs = pollInitialMaxWaitMs(inputs.targetDurationMinutes)
    /\ lastStatus = Undef
    /\ fetched = NoSnapshot
    /\ maxReturned = pollInitialMaxWaitMs(inputs.targetDurationMinutes)
    /\ pollResult = NoPollResult
    /\ caught = NoError
    /\ result = NoResult
    /\ thrown = NoError
    /\ posts = 1
    /\ gets = 0
    /\ failures = 0
    /\ fastFetches = 0
    /\ retryWarnings = 0
    /\ httpStatus = 201
    /\ jobs = 1
    /\ calculatedMaxWaitMs = 0
    /\ ticks = 1
    /\ sleeps = 0
    /\ NotRunning

SchedulePollTick == PollTick(PollingSnapshots)

PollingNext ==
    \/ SchedulePollTick

PollingSpec == InitPolling /\ [][PollingNext]_vars

\* Every awaited call settles and every timer fires: the loop keeps taking steps.
FairPollingSpec == PollingSpec /\ WF_vars(PollingNext)

\* The polling phase of a job that stays non-terminal and whose snapshots carry no
\* scheduling fields.
UnscheduledSnapshots ==
    {JobStatusResponse(st, None, NoText, NoText, None, None, NoText, NoSchedule) :
        st \in JobStatus \ TerminalJobStatus}

UnscheduledPollTick == PollTick(UnscheduledSnapshots)

UnscheduledPollingSpec == InitPolling /\ [][UnscheduledPollTick]_vars

(***************************************************************************)
(* withRetry alone: one call withRetry(operation, maxRetries) whose        *)
(* operation may resolve or reject with any of OperationErrors each time.  *)
(***************************************************************************)
OperationErrors ==
    {Error("Error", <<"read ", m>>) :
        m \in {"ECONNRESET", "ETIMEDOUT", "socket hang up", "fetch failed"}}
    \cup {Error("Error", <<"Request failed ", StatusMarker(st), ": ", "oops">>) :
            st \in {500, 502, 503, 504, 429, 400, 401, 404}}
    \cup {Error("Error", <<"Job ", "job_1", " not found">>), Error("TypeError", NoText)}

\* The baseDelayMs arguments tried: the default and a shorter one.
BaseDelays == {DEFAULT_BASE_DELAY_MS, 250}

InitRetry ==
    /\ runner = "consolidated"
    /\ analysis = AnalyzeResponse("")
    /\ inputs = ActionInputs(AppUrl, "", "", "", Some(5))
    /\ pc = "retry"
    /\ maxRetries \in 0..MaxRetriesArg
    /\ baseDelayMs \in BaseDelays
    /\ Idle
    /\ NotRunning

\* One pass through the loop body of withRetry.
WithRetryAttempt ==
    /\ pc = "retry"
    /\ calls' = calls + 1
    /\ \/ /\ pc' = "returned"
          /\ UNCHANGED <<attempt, lastError, thrown, now, retryWarnings>>
       \/ \E error \in OperationErrors :
            /\ lastError' = error
            /\ IF withRetryRethrows(error, attempt, maxRetries) THEN
                   /\ thrown' = error
                   /\ pc' = "thrown"
                   /\ UNCHANGED <<attempt, now, retryWarnings>>
               ELSE
                   /\ attempt' = attempt + 1
                   /\ retryWarnings' = retryWarnings + 1
                   /\ now' = now + withRetryDelay(attempt, baseDelayMs)
                   /\ UNCHANGED <<thrown, pc>>
    /\ UNCHANGED <<callVars, request, jobId, maxRetries, baseDelayMs, pollVars, caught, result,
                   httpVars>>

RetrySpec == InitRetry /\ [][WithRetryAttempt]_vars

(***************************************************************************)
(* calculateMaxWaitMs alone: within one poll session it is applied to the  *)
(* timing fields of one snapshot after another, at times that do not go    *)
(* back.                                                                   *)
(***************************************************************************)
TimingFields ==
    {<<t, e, d>> : t \in {None, Some(0), Some(5), Some(10)},
                   e \in {None, Some(0), Some(5), Some(30)},
                   d \in {None, Some(2 * 60 * 1000), Some(60 * 60 * 1000)}}

\* Time that passes between two calls.
TimeSteps == {0, 60 * 1000, 10 * 60 * 1000}

InitCalculate ==
    /\ runner = "consolidated"
    /\ analysis = AnalyzeResponse("")
    /\ inputs = ActionInputs(AppUrl, "", "", "", Some(5))
    /\ pc = "calculate"
    /\ maxRetries = DEFAULT_MAX_RETRIES
    /\ baseDelayMs = DEFAULT_BASE_DELAY_MS
    /\ Idle
    /\ NotRunning

\* A snapshot arrives and calculateMaxWaitMs is applied to its timing fields.
CalculateMaxWait ==
    /\ pc = "calculate"
    /\ gets < MaxCalculations
    /\ \E schedule \in TimingFields, step \in TimeSteps :
        LET status == JobStatusResponse("pending", None, NoText, NoText, None, None, NoText,
                                        schedule)
        IN  /\ now' = now + step
            /\ fetched' = status
            /\ calculatedMaxWaitMs' =
                    calculateMaxWaitMs(status.targetDurationMinutes,
                                       status.totalExtensionMinutes,
                                       status.responseDeadline, now + step)
    /\ gets' = gets + 1
    /\ UNCHANGED <<callVars, pc, request, jobId, retryVars, startTime, elapsed, maxWaitMs,
                   lastStatus, maxReturned, pollResult, caught, result, thrown, posts,
                   failures, fastFetches, httpStatus, jobs, tickVars>>

CalculateSpec == InitCalculate /\ [][CalculateMaxWait]_vars

(***************************************************************************)
(* The entry point, run() in index.ts: the PRs are analysed, the issues    *)
(* collected and analysed, one job is run for what is testable, and the    *)
(* outcome goes to the labels, the outputs and the workflow's failure.     *)
(* A runner's call is one step here: it yields any of the outcomes the     *)
(* runner can return to its caller.                                        *)
(***************************************************************************)
\* What an analysis endpoint may answer.
AnalysisResponse(status, body, isTestable) ==
    [kind |-> "http", fetchError |-> NoError, status |-> status, body |-> body,
     isTestable |-> isTestable]

AnalysisUnreachable(fetchError) ==
    [kind |-> "network", fetchError |-> fetchError, status |-> 0, body |-> NoBody,
     isTestable |-> FALSE]

AnalysisAnswers ==
    {AnalysisResponse(200, NoBody, t) : t \in BOOLEAN}
    \cup {AnalysisUnreachable(Error("TypeError", <<"fetch failed">>)),
          AnalysisResponse(401, NoBody, FALSE),
          AnalysisResponse(400, [json |-> FALSE, text |-> <<"Bad Request">>], FALSE),
          AnalysisResponse(503, NoBody, FALSE)}

\* errorData.error || errorData.message || errorText
AnalysisErrorMessage(response) ==
    IF response.body.text = NoText /\ response.body.json THEN <<"{}">> ELSE response.body.text

\* The body of analyzeIssue after fetch(): isTestable, or the error it throws.
analyzeIssue(response) ==
    IF response.kind = "network" THEN Thrown(response.fetchError)
    ELSE IF ~ResponseOk(response) THEN
        IF response.status = 401 THEN
            Thrown(Error("Error", <<"Authentication failed: Invalid API key. ",
                                    "Make sure your RUNHUMAN_API_KEY secret is set correctly.">>))
        ELSE
            Thrown(Error("Error", <<"Issue analysis failed ", StatusMarker(response.status), ": ">>
                                  \o AnalysisErrorMessage(response)))
    ELSE Returned(response.isTestable)

\* The body of analyzePr after fetch(): isTestable, or the error it throws.
analyzePr(response) ==
    IF response.kind = "network" THEN Thrown(response.fetchError)
    ELSE IF ~ResponseOk(response) THEN
        IF response.status = 401 THEN
            Thrown(Error("Error", <<"Authentication failed: Invalid API key. ",
                                    "Make sure your RUNHUMAN_API_KEY secret is set correctly.">>))
        ELSE
            Thrown(Error("Error", <<"PR analysis failed ", StatusMarker(response.status), ": ">>
                                  \o AnalysisErrorMessage(response)))
    ELSE Returned(response.isTestable)

\* Variant: the catch block of run() drops the error.
runCatchSwallows(error, failedCalls) == failedCalls

\* The catch block of run(): core.setFailed(error.message).
runCatch(error, failedCalls) == Append(failedCalls, error.message)

Range(s) == {s[i] : i \in DOMAIN s}

\* `set.add(num)` for each of nums in turn; a Set<number> keeps its members once, in the
\* order they were first added.
RECURSIVE AddAll(_, _)
AddAll(set, nums) ==
    IF nums = <<>> THEN set
    ELSE AddAll(IF Head(nums) \in Range(set) THEN set ELSE Append(set, Head(nums)), Tail(nums))

\* Variant: the numbers are gathered in an array, not in a Set.
collectIssuesWithoutSet(linked, explicit, fetchable) ==
    SelectSeq(linked \o explicit, LAMBDA n : n \in fetchable)

\* collectIssues: the issues linked from the PRs, then the explicit ones, are added to a
\* Set; of its members, those for which getIssue returns an issue.
collectIssues(linked, explicit, fetchable) ==
    LET allIssueNumbers == AddAll(AddAll(<<>>, linked), explicit)
    IN  SelectSeq(allIssueNumbers, LAMBDA n : n \in fetchable)

\* The inputs of run() tried.
RunInputs ==
    {ActionInputs(AppUrl, "Test the login flow", "", "", Some(5)),
     ActionInputs(AppUrl, "", "", "", Some(5)),
     ActionInputs("", "", "", "", Some(5))}

PrNumberLists == {<<>>, <<7>>}
IssueNumberLists == {<<>>, <<1>>, <<1, 2>>}
\* The issue references findLinkedIssuesFromPR may find in the PRs.
LinkedIssueNumbers(prs) == IF prs = <<>> THEN {<<>>} ELSE {<<>>, <<1>>}
\* The issues getIssue may be able to fetch.
FetchableIssues == SUBSET {1, 2}

FailOnFlags == [failOnError : BOOLEAN, failOnFailure : BOOLEAN, failOnTimeout : BOOLEAN]

\* What a runner's call leaves behind: the error it threw, the error its catch block
\* received, the result it returned, the jobs created and the requests sent.
RunOutcome(thrownError, caughtError, res, nJobs, nPosts, nGets) ==
    [thrown |-> thrownError, caught |-> caughtError, result |-> res, jobs |-> nJobs,
     posts |-> nPosts, gets |-> nGets]

\* The attempts withRetry makes of an operation that fails with this error every time.
AttemptsUntilRethrown(error) == IF isTransientError(error) THEN DEFAULT_MAX_RETRIES + 1 ELSE 1

\* The outcomes of runTestWithDescription and runConsolidatedTest.
RunnerOutcomes(r, inp, an) ==
    IF r = "description" /\ ~hasEnoughInfo(inp) THEN
        {RunOutcome(Error("Error", <<"Description is required when no issues are provided. ",
                                     "Provide via description input, template, or template-file.">>),
                    NoError, NoResult, 0, 0, 0)}
    ELSE IF r = "description" /\ ~buildJobRequest(inp).ok THEN
        {RunOutcome(NoError, buildJobRequest(inp).error,
                    CaughtResult(r, buildJobRequest(inp).error, an), 0, 0, 0)}
    ELSE IF r # "description" /\ TestUrl(r, inp, an) = "" THEN
        {RunOutcome(NoError, NoError, NoTestUrlResult(r, an), 0, 0, 0)}
    ELSE
        \* createJob fails on its last attempt
        UNION {LET error == createJob(response).error
                   posted == AttemptsUntilRethrown(error)
               IN  {RunOutcome(NoError, error, CaughtResult(r, error, an), created, posted, 0) :
                        created \in IF ResponseLost(response) THEN 0..posted ELSE {0}} :
               response \in CreateFailures}
        \cup
        \* getJobStatus fails on its last attempt
        {RunOutcome(NoError, getJobStatus(response, "job_1").error,
                    CaughtResult(r, getJobStatus(response, "job_1").error, an), 1, 1,
                    AttemptsUntilRethrown(getJobStatus(response, "job_1").error)) :
            response \in StatusFailures}
        \cup
        \* pollForCompletion returns: a terminal snapshot, or a timeout on one that is not
        {RunOutcome(NoError, NoError,
                    MappedResult(r, snapshot, ~isTerminalStatus(snapshot.status), "job_1", an),
                    1, 1, 1) :
            snapshot \in RunnerSnapshots}

\* Variant: a job that ended in error counts as a failed test.
consolidatedOutcomeErrorAsFailure(res) ==
    IF res.status = "abandoned" THEN "error"
    ELSE IF res.status = "timeout" THEN "timeout"
    ELSE IF res.success = Some(TRUE) THEN "success"
    ELSE "failure"

\* run(): the outcome of the consolidated result.
consolidatedOutcome(res) ==
    IF res.status = "error" \/ res.status = "abandoned" THEN "error"
    ELSE IF res.status = "timeout" THEN "timeout"
    ELSE IF res.success = Some(TRUE) THEN "success"
    ELSE "failure"

\* `issue #${n}` and `PR #${n}`
ItemNames(issueList, prList) ==
    [i \in DOMAIN issueList |-> "issue #" \o ToString(issueList[i])]
    \o [i \in DOMAIN prList |-> "PR #" \o ToString(prList[i])]

\* run(), description-only path: "Handle workflow failure".
descriptionWorkflowFailure(res, flags, failedCalls) ==
    IF res.success # Some(TRUE) THEN
        IF res.status = "timeout" /\ flags.failOnTimeout THEN
            Append(failedCalls, <<"Test timed out">>)
        ELSE IF res.status = "error" /\ flags.failOnError THEN
            Append(failedCalls, <<"Test error: ">> \o res.explanation)
        ELSE IF flags.failOnFailure THEN
            Append(failedCalls, <<"Test failed: ">> \o res.explanation)
        ELSE failedCalls
    ELSE failedCalls

\* run(), consolidated path: "Handle workflow failure".
workflowFailure(hasErr, timedOutI, timedOutP, failedI, failedP, flags, failedCalls) ==
    IF hasErr /\ flags.failOnError THEN
        Append(failedCalls, <<"One or more tests encountered errors">>)
    ELSE IF (Len(timedOutI) > 0 \/ Len(timedOutP) > 0) /\ flags.failOnTimeout THEN
        Append(failedCalls, <<"Tests timed out for: ">> \o ItemNames(timedOutI, timedOutP))
    ELSE IF (Len(failedI) > 0 \/ Len(failedP) > 0) /\ flags.failOnFailure THEN
        Append(failedCalls, <<"Tests failed for: ">> \o ItemNames(failedI, failedP))
    ELSE failedCalls

ActionOutputs(status, success) == [status |-> status, success |-> success]

\* run() has just been called.
InitRun ==
    /\ runner = Undef
    /\ analysis = AnalyzeResponse("")
    /\ inputs \in RunInputs
    /\ failOn \in FailOnFlags
    /\ prNumbers \in PrNumberLists
    /\ issueNumbers \in IssueNumberLists
    /\ phase = IF prNumbers = <<>> THEN "collectIssues" ELSE "analyzePrs"
    /\ pc = "start"
    /\ maxRetries = DEFAULT_MAX_RETRIES
    /\ baseDelayMs = DEFAULT_BASE_DELAY_MS
    /\ Idle
    /\ RunNotStarted
    /\ ItemsNotPassed

\* The state of the runner called by run().
runnerVars == <<runner, pc, request, jobId, pollVars, caught, result, httpVars>>

\* run()'s catch block receives the error.
RunCatches(error) ==
    /\ thrown' = error
    /\ setFailedCalls' = runCatch(error, setFailedCalls)
    /\ phase' = "finished"

\* An attempt of withRetry(() => analyze...(...)) threw: withRetry rethrows, and nothing
\* between it and run()'s catch block catches, or it waits and goes round again.
AnalysisThrows(error) ==
    /\ lastError' = error
    /\ calls' = calls + 1
    /\ IF withRetryRethrows(error, attempt, maxRetries) THEN
           /\ RunCatches(error)
           /\ UNCHANGED <<attempt, now, retryWarnings>>
       ELSE
           /\ attempt' = attempt + 1
           /\ retryWarnings' = retryWarnings + 1
           /\ now' = now + withRetryDelay(attempt, baseDelayMs)
           /\ UNCHANGED <<thrown, setFailedCalls, phase>>

\* The attempt returned: the loop goes to its next item, or the function returns.
AnalysisReturns(nextPhase) ==
    /\ attempt' = withRetryFirstAttempt(attempt)
    /\ calls' = 0
    /\ lastError' = NoError
    /\ phase' = nextPhase
    /\ UNCHANGED <<thrown, setFailedCalls, now, retryWarnings>>

\* analyzePrsForTestability: fetchPrData rejects for the next PR.
FetchPrDataThrows ==
    /\ phase = "analyzePrs"
    /\ calls = 0
    /\ RunCatches(Error("HttpError", <<"Not Found">>))
    /\ UNCHANGED <<runnerVars, inputs, analysis, now, retryVars, failOn, loopVars,
                   itemVars, tallyVars,
                   labels, outputs>>

\* analyzePrsForTestability: one attempt at the analysis of the next PR.
analyzePrsForTestability ==
    /\ phase = "analyzePrs"
    /\ LET analyzed == Len(testablePrs) + Len(notTestablePrs)
           prNumber == prNumbers[analyzed + 1]
       IN  \E response \in AnalysisAnswers :
            LET out == analyzePr(response)
            IN  IF out.ok THEN
                    /\ IF out.value THEN
                           /\ testablePrs' = Append(testablePrs, prNumber)
                           /\ UNCHANGED notTestablePrs
                       ELSE
                           /\ notTestablePrs' = Append(notTestablePrs, prNumber)
                           /\ UNCHANGED testablePrs
                    /\ AnalysisReturns(IF analyzed + 1 = Len(prNumbers) THEN "collectIssues"
                                       ELSE "analyzePrs")
                ELSE
                    /\ AnalysisThrows(out.error)
                    /\ UNCHANGED <<testablePrs, notTestablePrs>>
    /\ UNCHANGED <<runnerVars, inputs, analysis, maxRetries, baseDelayMs, failOn,
                   loopVars, analyzedPrs, analyzedIssues, prNumbers,
                   issueNumbers, issues, testable, notTestable, tallyVars, labels, outputs>>

\* run(): collectIssues, then the two early paths are chosen or passed by.
CollectIssues ==
    /\ phase = "collectIssues"
    /\ \E linked \in LinkedIssueNumbers(prNumbers), fetchable \in FetchableIssues :
        LET collected == collectIssues(linked, issueNumbers, fetchable)
            nothingToTest == collected = <<>> /\ testablePrs = <<>>
        IN  /\ issues' = collected
            /\ IF nothingToTest /\ inputs.description = "" THEN
                   /\ outputs' = ActionOutputs("no-issues", Some(TRUE))
                   /\ phase' = "finished"
               ELSE
                   /\ outputs' = outputs
                   /\ phase' = IF nothingToTest THEN "description"
                               ELSE IF collected # <<>> THEN "analyzeIssues"
                               ELSE "consolidated"
    /\ UNCHANGED <<runnerVars, inputs, analysis, now, retryVars, thrown, failOn,
                   loopVars, analyzedPrs, analyzedIssues, prNumbers,
                   issueNumbers, testablePrs, notTestablePrs, testable, notTestable, tallyVars,
                   labels, setFailedCalls>>

\* analyzeIssuesForTestability: one attempt at the analysis of the next issue.
analyzeIssuesForTestability ==
    /\ phase = "analyzeIssues"
    /\ LET analyzed == Len(testable) + Len(notTestable)
           issue == issues[analyzed + 1]
       IN  \E response \in AnalysisAnswers :
            LET out == analyzeIssue(response)
            IN  IF out.ok THEN
                    /\ IF out.value THEN
                           /\ testable' = Append(testable, issue)
                           /\ UNCHANGED notTestable
                       ELSE
                           /\ notTestable' = Append(notTestable, issue)
                           /\ UNCHANGED testable
                    /\ AnalysisReturns(IF analyzed + 1 = Len(issues) THEN "consolidated"
                                       ELSE "analyzeIssues")
                ELSE
                    /\ AnalysisThrows(out.error)
                    /\ UNCHANGED <<testable, notTestable>>
    /\ UNCHANGED <<runnerVars, inputs, analysis, maxRetries, baseDelayMs, failOn,
                   loopVars, analyzedPrs, analyzedIssues, prNumbers,
                   issueNumbers, issues, testablePrs, notTestablePrs, tallyVars, labels, outputs>>

\* run() awaited a runner: what the call left behind.
RunnerCalled(r, outcome) ==
    /\ runner' = r
    /\ pc' = IF outcome.thrown = NoError THEN "done" ELSE "thrown"
    /\ request' = IF outcome.posts = 0 THEN NoRequest
                  ELSE IF r = "description" THEN buildJobRequest(inputs).value
                  ELSE ItemJobRequest(r, inputs, analysis)
    /\ jobId' = IF outcome.gets > 0 THEN "job_1" ELSE Undef
    /\ caught' = outcome.caught
    /\ result' = outcome.result
    /\ jobs' = outcome.jobs
    /\ posts' = outcome.posts
    /\ gets' = outcome.gets
    /\ UNCHANGED <<pollVars, failures, fastFetches, httpStatus>>

\* run(), the consolidated path with every push of the tracking arrays unconditional.
pushAllWhateverTheOutcome(list, outcome, wanted, numbers) == list \o numbers

\* run(), the consolidated path: `if (outcome === wanted) list.push(number)` over all the
\* tested items, in their order.
pushAll(list, outcome, wanted, numbers) ==
    IF outcome = wanted THEN list \o numbers ELSE list

\* Variant: a run whose items timed out reports the status completed.
outputStatusWithoutTimeout(erred, timedOutI, timedOutP) ==
    IF erred THEN "error" ELSE "completed"

\* run(): the status of the outputs, hasError ? 'error' : (timedOutIssues.length > 0 ||
\* timedOutPrs.length > 0) ? 'timeout' : 'completed'.
outputStatus(erred, timedOutI, timedOutP) ==
    IF erred THEN "error"
    ELSE IF Len(timedOutI) > 0 \/ Len(timedOutP) > 0 THEN "timeout"
    ELSE "completed"

\* run(), the description-only path: one test, the outputs, the workflow's failure.
RunDescriptionOnly ==
    /\ phase = "description"
    /\ \E outcome \in RunnerOutcomes("description", inputs, analysis) :
        /\ RunnerCalled("description", outcome)
        /\ IF outcome.thrown # NoError THEN
               /\ RunCatches(outcome.thrown)
               /\ UNCHANGED outputs
           ELSE
               LET res == outcome.result
                   mappedStatus == IF res.status = "abandoned" \/ res.status = "not-testable"
                                   THEN "error" ELSE res.status
               IN  /\ outputs' = ActionOutputs(mappedStatus, res.success)
                   /\ setFailedCalls' = descriptionWorkflowFailure(res, failOn, setFailedCalls)
                   /\ phase' = "finished"
                   /\ UNCHANGED thrown
    /\ UNCHANGED <<inputs, analysis, now, retryVars, failOn, loopVars, itemVars, tallyVars, labels>>

\* run(), the consolidated path: the not-testable labels, one job for all the testable
\* items, its outcome applied to each of them, the outputs, the workflow's failure.
RunConsolidated ==
    /\ phase = "consolidated"
    /\ LET notTestableLabels == labels \cup {<<n, "not-testable">> : n \in Range(notTestable)}
       IN  IF testablePrs = <<>> /\ testable = <<>> THEN
               /\ labels' = notTestableLabels
               /\ outputs' = ActionOutputs(outputStatus(FALSE, <<>>, <<>>), Some(TRUE))
               /\ setFailedCalls' = workflowFailure(FALSE, <<>>, <<>>, <<>>, <<>>, failOn,
                                                    setFailedCalls)
               /\ UNCHANGED <<runnerVars, tallyVars>>
           ELSE
               \E outcome \in RunnerOutcomes("consolidated", inputs, analysis) :
                   LET o == consolidatedOutcome(outcome.result)
                       erred == o = "error"
                       timedOutI == pushAll(<<>>, o, "timeout", testable)
                       timedOutP == pushAll(<<>>, o, "timeout", testablePrs)
                       failedI == pushAll(<<>>, o, "failure", testable)
                       failedP == pushAll(<<>>, o, "failure", testablePrs)
                       allPassed == /\ Len(failedI) = 0 /\ Len(timedOutI) = 0
                                    /\ Len(failedP) = 0 /\ Len(timedOutP) = 0
                                    /\ ~erred
                   IN  /\ RunnerCalled("consolidated", outcome)
                       /\ hasError' = erred
                       /\ timedOutIssues' = timedOutI
                       /\ timedOutPrs' = timedOutP
                       /\ failedIssues' = failedI
                       /\ failedPrs' = failedP
                       /\ passedIssues' = pushAll(<<>>, o, "success", testable)
                       /\ passedPrs' = pushAll(<<>>, o, "success", testablePrs)
                       /\ labels' = notTestableLabels \cup {<<n, o>> : n \in Range(testable)}
                       /\ outputs' = ActionOutputs(outputStatus(erred, timedOutI, timedOutP),
                                                   Some(allPassed))
                       /\ setFailedCalls' = workflowFailure(erred, timedOutI, timedOutP, failedI,
                                                            failedP, failOn, setFailedCalls)
    /\ phase' = "finished"
    /\ UNCHANGED <<inputs, analysis, now, retryVars, thrown, failOn, loopVars, itemVars>>

RunNext ==
    \/ FetchPrDataThrows
    \/ analyzePrsForTestability
    \/ CollectIssues
    \/ analyzeIssuesForTestability
    \/ RunDescriptionOnly
    \/ RunConsolidated

\* A whole run of the action.
RunSpec == InitRun /\ [][RunNext]_vars

(***************************************************************************)
(* The request a runner hands to createJob: URL, description, output       *)
(* schema and metadata, for each runner and each list of analysed items.   *)
(* A description is a text: runConsolidatedTest's is the sequence of the   *)
(* pieces it joins, the other runners' is one piece.                       *)
(***************************************************************************)
GithubRepo == "acme/shop"

PullRequest(number, title) == [number |-> number, title |-> title]
Issue(number, title) == [number |-> number, title |-> title]
\* AnalyzeIssueResponse and AnalyzePrResponse (the latter has no testUrl: "").
ItemAnalysis(testUrl, testInstructions, outputSchema) ==
    [testUrl |-> testUrl, testInstructions |-> testInstructions, outputSchema |-> outputSchema]
AnalyzedPr(pr, itemAnalysis) == [pr |-> pr, analysis |-> itemAnalysis]
AnalyzedIssue(issue, itemAnalysis) == [issue |-> issue, analysis |-> itemAnalysis]

\* JobMetadata: the references; the source tag stands for the base metadata.
JobMetadata(githubPR, githubPRs, githubIssue, githubIssues) ==
    [source |-> "runhuman-action", githubPR |-> githubPR, githubPRs |-> githubPRs,
     githubIssue |-> githubIssue, githubIssues |-> githubIssues]

buildBaseMetadata == JobMetadata(None, None, None, None)

PrReference(analyzedPr) ==
    [repo |-> GithubRepo, prNumber |-> analyzedPr.pr.number,
     prUrl |-> <<"https://github.com/", GithubRepo, "/pull/", ToString(analyzedPr.pr.number)>>]

IssueReference(analyzedIssue) ==
    [repo |-> GithubRepo, issueNumber |-> analyzedIssue.issue.number,
     issueUrl |-> <<"https://github.com/", GithubRepo, "/issues/",
                    ToString(analyzedIssue.issue.number)>>]

buildIssueTestMetadata(analyzedIssue) ==
    [buildBaseMetadata EXCEPT !.githubIssue = Some(IssueReference(analyzedIssue))]

buildPrTestMetadata(analyzedPr) ==
    [buildBaseMetadata EXCEPT !.githubPR = Some(PrReference(analyzedPr))]

\* Variant: a single PR is stored in the list field too.
buildConsolidatedMetadataListForOne(prList, issueList) ==
    LET withPrs ==
            IF Len(prList) >= 1 THEN
                [buildBaseMetadata EXCEPT
                    !.githubPRs = Some([i \in DOMAIN prList |-> PrReference(prList[i])])]
            ELSE buildBaseMetadata
    IN  IF Len(issueList) = 1 THEN
            [withPrs EXCEPT !.githubIssue = Some(IssueReference(issueList[1]))]
        ELSE IF Len(issueList) > 1 THEN
            [withPrs EXCEPT
                !.githubIssues = Some([i \in DOMAIN issueList |-> IssueReference(issueList[i])])]
        ELSE withPrs

\* Variant: a list of PRs also fills the single reference with its first PR.
buildConsolidatedMetadataBothForms(prList, issueList) ==
    LET withPrs ==
            IF Len(prList) = 1 THEN
                [buildBaseMetadata EXCEPT !.githubPR = Some(PrReference(prList[1]))]
            ELSE IF Len(prList) > 1 THEN
                [buildBaseMetadata EXCEPT
                    !.githubPR = Some(PrReference(prList[1])),
                    !.githubPRs = Some([i \in DOMAIN prList |-> PrReference(prList[i])])]
            ELSE buildBaseMetadata
    IN  IF Len(issueList) = 1 THEN
            [withPrs EXCEPT !.githubIssue = Some(IssueReference(issueList[1]))]
        ELSE IF Len(issueList) > 1 THEN
            [withPrs EXCEPT
                !.githubIssues = Some([i \in DOMAIN issueList |-> IssueReference(issueList[i])])]
        ELSE withPrs

buildConsolidatedMetadata(prList, issueList) ==
    LET withPrs ==
            IF Len(prList) = 1 THEN
                [buildBaseMetadata EXCEPT !.githubPR = Some(PrReference(prList[1]))]
            ELSE IF Len(prList) > 1 THEN
                [buildBaseMetadata EXCEPT
                    !.githubPRs = Some([i \in DOMAIN prList |-> PrReference(prList[i])])]
            ELSE buildBaseMetadata
    IN  IF Len(issueList) = 1 THEN
            [withPrs EXCEPT !.githubIssue = Some(IssueReference(issueList[1]))]
        ELSE IF Len(issueList) > 1 THEN
            [withPrs EXCEPT
                !.githubIssues = Some([i \in DOMAIN issueList |-> IssueReference(issueList[i])])]
        ELSE withPrs

\* `## PR #${pr.number}: ${pr.title}\n\n${analysis.testInstructions}`
PrSection(analyzedPr) ==
    <<"## PR #" \o ToString(analyzedPr.pr.number) \o ": " \o analyzedPr.pr.title, "\n\n",
      analyzedPr.analysis.testInstructions>>

\* `## Issue #${issue.number}: ${issue.title}\n\n${analysis.testInstructions}`
IssueSection(analyzedIssue) ==
    <<"## Issue #" \o ToString(analyzedIssue.issue.number) \o ": " \o analyzedIssue.issue.title,
      "\n\n", analyzedIssue.analysis.testInstructions>>

\* sections.join(separator)
RECURSIVE Join(_, _)
Join(sections, separator) ==
    IF Len(sections) = 0 THEN <<>>
    ELSE IF Len(sections) = 1 THEN sections[1]
    ELSE sections[1] \o <<separator>> \o Join(Tail(sections), separator)

\* Variant: a single item keeps its heading.
buildConsolidatedDescriptionAlwaysHeaded(prList, issueList) ==
    Join([i \in DOMAIN prList |-> PrSection(prList[i])]
         \o [i \in DOMAIN issueList |-> IssueSection(issueList[i])], "\n\n---\n\n")

buildConsolidatedDescription(prList, issueList) ==
    LET sections == [i \in DOMAIN prList |-> PrSection(prList[i])]
                    \o [i \in DOMAIN issueList |-> IssueSection(issueList[i])]
    IN  IF Len(sections) = 1 THEN
            IF Len(prList) > 0 THEN <<prList[1].analysis.testInstructions>>
            ELSE <<issueList[1].analysis.testInstructions>>
        ELSE Join(sections, "\n\n---\n\n")

\* prs[0]?.analysis.outputSchema || issues[0]?.analysis.outputSchema || undefined
consolidatedOutputSchema(prList, issueList) ==
    IF Len(prList) > 0 /\ prList[1].analysis.outputSchema # None THEN
        prList[1].analysis.outputSchema
    ELSE IF Len(issueList) > 0 /\ issueList[1].analysis.outputSchema # None THEN
        issueList[1].analysis.outputSchema
    ELSE None

\* The argument of createJob.
SubmittedJobRequest(url, description, outputSchema, metadata, template, templateContent) ==
    [url |-> url, description |-> description, outputSchema |-> outputSchema,
     metadata |-> metadata, template |-> template, templateContent |-> templateContent]

\* The request each runner builds, once its checks have passed.
RunnerJobRequest(r, inp, prList, issueList) ==
    CASE r = "description" ->
            LET built == buildJobRequest(inp).value
            IN  SubmittedJobRequest(built.url, <<built.description>>, None, buildBaseMetadata,
                                    built.template, built.templateContent)
      [] r = "issue" ->
            SubmittedJobRequest(TestUrl(r, inp, issueList[1].analysis),
                                <<issueList[1].analysis.testInstructions>>,
                                issueList[1].analysis.outputSchema,
                                buildIssueTestMetadata(issueList[1]), "", "")
      [] r = "pr" ->
            SubmittedJobRequest(TestUrl(r, inp, prList[1].analysis),
                                <<prList[1].analysis.testInstructions>>,
                                prList[1].analysis.outputSchema,
                                buildPrTestMetadata(prList[1]), "", "")
      [] r = "consolidated" ->
            SubmittedJobRequest(inp.url, buildConsolidatedDescription(prList, issueList),
                                consolidatedOutputSchema(prList, issueList),
                                buildConsolidatedMetadata(prList, issueList), "", "")

\* The analysed items tried.
PrPool ==
    {AnalyzedPr(PullRequest(7, "Add login"), ItemAnalysis("", "Log in and out", s)) :
        s \in {None, Some("loginSchema")}}
    \cup {AnalyzedPr(PullRequest(8, "Fix cart"), ItemAnalysis("", "Open the cart", Some("cartSchema"))),
          AnalyzedPr(PullRequest(9, "Bump dependencies"), ItemAnalysis("", "", None))}

IssuePool ==
    {AnalyzedIssue(Issue(1, "Login fails"), ItemAnalysis("", "Log in twice", s)) :
        s \in {None, Some("issueSchema")}}
    \cup {AnalyzedIssue(Issue(2, "Cart is empty"),
                        ItemAnalysis("https://preview.example.com", "Add an item", Some("cartSchema"))),
          AnalyzedIssue(Issue(3, "Typo"), ItemAnalysis("", "", None))}

\* Lists of up to MaxItems analysed PRs, each PR at most once.
PrLists ==
    {l \in UNION {[1..n -> PrPool] : n \in 0..MaxItems} :
        \A i, j \in DOMAIN l : i # j => l[i].pr.number # l[j].pr.number}

\* Lists of up to MaxItems analysed issues, each issue at most once.
IssueLists ==
    {l \in UNION {[1..n -> IssuePool] : n \in 0..MaxItems} :
        \A i, j \in DOMAIN l : i # j => l[i].issue.number # l[j].issue.number}

RequestInputs ==
    {ActionInputs(AppUrl, "", "", "", Some(5)), ActionInputs("", "", "", "", Some(5))}

\* A runner has just been called with its items.
InitRequest ==
    /\ runner \in Runners
    /\ CASE runner = "description" ->
              /\ inputs \in {call[1] : call \in CallsOf("description")}
              /\ analyzedPrs = <<>>
              /\ analyzedIssues = <<>>
              /\ analysis = AnalyzeResponse("")
         [] runner = "issue" ->
              /\ inputs \in RequestInputs
              /\ analyzedPrs = <<>>
              /\ analyzedIssues \in {l \in IssueLists : Len(l) = 1}
              /\ analysis = analyzedIssues[1].analysis
         [] runner = "pr" ->
              /\ inputs \in RequestInputs
              /\ analyzedPrs \in {l \in PrLists : Len(l) = 1}
              /\ analyzedIssues = <<>>
              /\ analysis = analyzedPrs[1].analysis
         [] runner = "consolidated" ->
              /\ inputs \in RequestInputs
              /\ analyzedPrs \in PrLists
              /\ analyzedIssues \in IssueLists
              /\ Len(analyzedPrs) + Len(analyzedIssues) > 0
              /\ analysis = AnalyzeResponse("")
    /\ pc = "start"
    /\ maxRetries = DEFAULT_MAX_RETRIES
    /\ baseDelayMs = DEFAULT_BASE_DELAY_MS
    /\ Idle
    /\ phase = "none"
    /\ failOn = [failOnError |-> TRUE, failOnFailure |-> TRUE, failOnTimeout |-> FALSE]
    /\ prNumbers = <<>>
    /\ issueNumbers = <<>>
    /\ RunNotStarted

\* runTestWithDescription up to createJob, with the whole request.
BuildDescriptionRequest ==
    /\ pc = "start"
    /\ runner = "description"
    /\ IF ~hasEnoughInfo(inputs) THEN
           /\ thrown' = Error("Error", <<"Description is required when no issues are provided. ",
                                         "Provide via description input, template, or template-file.">>)
           /\ pc' = "thrown"
           /\ UNCHANGED <<request, caught, result, retryVars>>
       ELSE IF buildJobRequest(inputs).ok THEN
           BeginCreate(RunnerJobRequest(runner, inputs, analyzedPrs, analyzedIssues))
       ELSE ReturnEarly(buildJobRequest(inputs).error,
                        CaughtResult(runner, buildJobRequest(inputs).error, analysis))
    /\ UNCHANGED <<callVars, now, jobId, pollVars, httpVars>>

\* runTestForIssue, runTestForPr and runConsolidatedTest up to createJob, with the
\* whole request.
BuildItemRequest ==
    /\ pc = "start"
    /\ runner # "description"
    /\ IF TestUrl(runner, inputs, analysis) = "" THEN
           ReturnEarly(NoError, NoTestUrlResult(runner, analysis))
       ELSE BeginCreate(RunnerJobRequest(runner, inputs, analyzedPrs, analyzedIssues))
    /\ UNCHANGED <<callVars, now, jobId, pollVars, httpVars>>

RequestNext ==
    \/ BuildDescriptionRequest
    \/ BuildItemRequest

\* A runner's call up to the request it submits.
RequestSpec == InitRequest /\ [][RequestNext]_vars

(***************************************************************************)
(* run(): the order in which the runners are called                        *)
(***************************************************************************)
\* A runner call made by run(): the items it tests, where it is (create, poll,
\* returned), the job it created and the result it returned.
RunnerCall(items, at, id, res) == [items |-> items, pc |-> at, jobId |-> id, result |-> res]

\* What a runner may return, as far as run() looks at it.
RunnerResults ==
    {[status |-> "completed", success |-> Some(TRUE)],
     [status |-> "completed", success |-> Some(FALSE)],
     [status |-> "timeout", success |-> Some(FALSE)],
     [status |-> "abandoned", success |-> Some(FALSE)],
     [status |-> "error", success |-> Some(FALSE)]}

\* The lists of testable issues and PRs tried.
TestableIssueLists ==
    {l \in UNION {[1..n -> {1, 2, 3}] : n \in 0..MaxItems} :
        \A i, j \in DOMAIN l : i # j => l[i] # l[j]}
TestablePrLists == {<<>>, <<7>>}

\* Variant: the runner calls are started without awaiting the previous one.
AwaitedNever(started) == TRUE

\* `const result = await runTestForIssue(inputs, issue)` in the body of the for loop, and
\* `await runConsolidatedTest(...)`: what follows the call, the next iteration included,
\* runs once the call has returned its result.
Awaited(started) == \A i \in DOMAIN started : started[i].pc = "returned"

\* The jobs the remote service has created for the calls.
CreatedJobs(started) == {i \in DOMAIN started : started[i].jobId # None}

\* The first revision of run(): the outcome of one issue's result.
issueOutcome(res) ==
    IF res.status = "error" THEN "error"
    ELSE IF res.status = "timeout" THEN "timeout"
    ELSE IF res.success = Some(TRUE) THEN "success"
    ELSE "failure"

\* run() has analysed the items and is about to test them.
InitLoop ==
    /\ runner \in {"issue", "consolidated"}
    /\ testable \in TestableIssueLists
    /\ testablePrs \in IF runner = "issue" THEN {<<>>} ELSE TestablePrLists
    /\ issues = testable
    /\ issueNumbers = testable
    /\ prNumbers = testablePrs
    /\ notTestable = <<>>
    /\ notTestablePrs = <<>>
    /\ phase = "run-tests"
    /\ inputs = ActionInputs(AppUrl, "", "", "", Some(5))
    /\ analysis = AnalyzeResponse("")
    /\ failOn = [failOnError |-> TRUE, failOnFailure |-> TRUE, failOnTimeout |-> FALSE]
    /\ pc = "start"
    /\ maxRetries = DEFAULT_MAX_RETRIES
    /\ baseDelayMs = DEFAULT_BASE_DELAY_MS
    /\ Idle
    /\ ItemsNotPassed
    /\ hasError = FALSE
    /\ timedOutIssues = <<>>
    /\ timedOutPrs = <<>>
    /\ failedIssues = <<>>
    /\ failedPrs = <<>>
    /\ passedIssues = <<>>
    /\ passedPrs = <<>>
    /\ labels = {}
    /\ outputs = NoOutputs
    /\ setFailedCalls = <<>>
    /\ runnerCalls = <<>>
    /\ statusFetches = {}

\* The first revision of run(): the next iteration of `for (const issue of testable)`
\* calls runTestForIssue.
CallRunTestForIssue ==
    /\ phase = "run-tests"
    /\ runner = "issue"
    /\ Len(runnerCalls) < Len(testable)
    /\ Awaited(runnerCalls)
    /\ runnerCalls' = Append(runnerCalls,
                             RunnerCall(<<testable[Len(runnerCalls) + 1]>>, "create", None,
                                        NoResult))
    /\ UNCHANGED <<runnerVars, inputs, analysis, now, retryVars, thrown, phase, failOn, itemVars,
                   tallyVars, labels, outputs, setFailedCalls, statusFetches>>

\* The last revision of run(): ONE call of runConsolidatedTest for all testable PRs and
\* issues.
CallRunConsolidatedTest ==
    /\ phase = "run-tests"
    /\ runner = "consolidated"
    /\ runnerCalls = <<>>
    /\ Len(testablePrs) > 0 \/ Len(testable) > 0
    /\ Awaited(runnerCalls)
    /\ runnerCalls' = <<RunnerCall(testablePrs \o testable, "create", None, NoResult)>>
    /\ UNCHANGED <<runnerVars, inputs, analysis, now, retryVars, thrown, phase, failOn, itemVars,
                   tallyVars, labels, outputs, setFailedCalls, statusFetches>>

\* run() resumes after the await with the result of call i: the tallies and the labels.
RunnerReturned(i, res) ==
    /\ runnerCalls' = [runnerCalls EXCEPT ![i].pc = "returned", ![i].result = res]
    /\ IF runner = "issue" THEN
           LET outcome == issueOutcome(res)
               number == runnerCalls[i].items[1]
           IN  /\ hasError' = (hasError \/ outcome = "error")
               /\ timedOutIssues' = IF outcome = "timeout" THEN Append(timedOutIssues, number)
                                    ELSE timedOutIssues
               /\ failedIssues' = IF outcome = "failure" THEN Append(failedIssues, number)
                                  ELSE failedIssues
               /\ passedIssues' = IF outcome = "success" THEN Append(passedIssues, number)
                                  ELSE passedIssues
               /\ labels' = labels \cup {<<number, outcome>>}
               /\ UNCHANGED <<timedOutPrs, failedPrs, passedPrs>>
       ELSE
           LET outcome == consolidatedOutcome(res)
           IN  /\ hasError' = (outcome = "error")
               /\ timedOutIssues' = pushAll(<<>>, outcome, "timeout", testable)
               /\ timedOutPrs' = pushAll(<<>>, outcome, "timeout", testablePrs)
               /\ failedIssues' = pushAll(<<>>, outcome, "failure", testable)
               /\ failedPrs' = pushAll(<<>>, outcome, "failure", testablePrs)
               /\ passedIssues' = pushAll(<<>>, outcome, "success", testable)
               /\ passedPrs' = pushAll(<<>>, outcome, "success", testablePrs)
               /\ labels' = labels \cup {<<n, outcome>> : n \in Range(testable)}

\* A runner in flight calls createJob: the remote service creates a job with a new id, or
\* the call fails and the runner returns an error result.
RunnerCreatesJob ==
    /\ phase = "run-tests"
    /\ \E i \in DOMAIN runnerCalls :
        /\ runnerCalls[i].pc = "create"
        /\ \/ /\ runnerCalls' =
                    [runnerCalls EXCEPT ![i].pc = "poll",
                                        ![i].jobId = Some(Cardinality(CreatedJobs(runnerCalls)) + 1)]
              /\ UNCHANGED <<tallyVars, labels>>
           \/ RunnerReturned(i, [status |-> "error", success |-> Some(FALSE)])
    /\ UNCHANGED <<runnerVars, inputs, analysis, now, retryVars, thrown, phase, failOn, itemVars,
                   outputs, setFailedCalls, statusFetches>>

\* pollForCompletion of a runner in flight fetches the status of its job.
RunnerPolls ==
    /\ phase = "run-tests"
    /\ \E i \in DOMAIN runnerCalls :
        /\ runnerCalls[i].pc = "poll"
        /\ statusFetches' = statusFetches \cup {<<runnerCalls[i].jobId[1], i>>}
    /\ UNCHANGED <<runnerVars, inputs, analysis, now, retryVars, thrown, phase, failOn, itemVars,
                   tallyVars, labels, outputs, setFailedCalls, runnerCalls>>

\* A runner in flight has polled its job to the end and returns its result.
RunnerReturns ==
    /\ phase = "run-tests"
    /\ \E i \in DOMAIN runnerCalls :
        /\ runnerCalls[i].pc = "poll"
        /\ <<runnerCalls[i].jobId[1], i>> \in statusFetches
        /\ \E res \in RunnerResults : RunnerReturned(i, res)
    /\ UNCHANGED <<runnerVars, inputs, analysis, now, retryVars, thrown, phase, failOn, itemVars,
                   outputs, setFailedCalls, statusFetches>>

\* Every item has been tested: run() goes on to the outputs.
LoopDone ==
    /\ phase = "run-tests"
    /\ IF runner = "issue" THEN Len(runnerCalls) = Len(testable)
       ELSE Len(runnerCalls) = 1 \/ (testablePrs = <<>> /\ testable = <<>>)
    /\ Awaited(runnerCalls)
    /\ phase' = "outputs"
    /\ UNCHANGED <<runnerVars, inputs, analysis, now, retryVars, thrown, failOn, itemVars,
                   tallyVars, labels, outputs, setFailedCalls, loopVars>>

LoopNext ==
    \/ CallRunTestForIssue
    \/ CallRunConsolidatedTest
    \/ RunnerCreatesJob
    \/ RunnerPolls
    \/ RunnerReturns
    \/ LoopDone

\* run() from the end of the analysis to the end of the tests.
LoopSpec == InitLoop /\ [][LoopNext]_vars

(***************************************************************************)
(* collectIssues on its own                                                *)
(***************************************************************************)
\* The numbers of the repository that are pull requests; the others are issues.
PullRequestNumbers == {7, 8}
IssueNumbersOfRepo == {1, 2}

\* The prNumbers and issueNumbers inputs tried: any list, with repeats, and with PR numbers
\* among the issue numbers.
CollectPrNumberLists == UNION {[1..n -> PullRequestNumbers] : n \in 0..MaxItems}
CollectIssueNumberLists ==
    UNION {[1..n -> IssueNumbersOfRepo \cup {7}] : n \in 0..MaxReferences}

\* What extractIssueNumbers may find in the title and body of each PR: `#n` references,
\* each number once.
IssueReferences == [PullRequestNumbers -> {<<>>, <<1>>, <<2, 1>>, <<1, 8>>}]

\* getIssue: null for a number that is a pull request (issue.pull_request is set) and for
\* one whose fetch failed; `fetchedIssues` are the numbers whose fetch succeeds.
getIssue(n, fetchedIssues) == IF n \in PullRequestNumbers \/ n \notin fetchedIssues THEN None ELSE Some(n)

\* findLinkedIssuesFromPR: nothing when the PR cannot be fetchedIssues, else the references
\* for which getIssue returns an issue.
findLinkedIssuesFromPR(prNumber, references, fetchedPrs, fetchedIssues) ==
    IF prNumber \notin fetchedPrs THEN <<>>
    ELSE SelectSeq(references[prNumber], LAMBDA n : getIssue(n, fetchedIssues) # None)

\* collectIssues: the first loop's linkedIssues, PR after PR.
RECURSIVE LinkedIssues(_, _, _, _)
LinkedIssues(prList, references, fetchedPrs, fetchedIssues) ==
    IF prList = <<>> THEN <<>>
    ELSE findLinkedIssuesFromPR(Head(prList), references, fetchedPrs, fetchedIssues)
         \o LinkedIssues(Tail(prList), references, fetchedPrs, fetchedIssues)

\* run() is about to call collectIssues.
InitCollect ==
    /\ runner = Undef
    /\ analysis = AnalyzeResponse("")
    /\ inputs = ActionInputs(AppUrl, "", "", "", Some(5))
    /\ failOn = [failOnError |-> TRUE, failOnFailure |-> TRUE, failOnTimeout |-> FALSE]
    /\ prNumbers \in CollectPrNumberLists
    /\ issueNumbers \in CollectIssueNumberLists
    /\ phase = "collectIssues"
    /\ pc = "start"
    /\ maxRetries = DEFAULT_MAX_RETRIES
    /\ baseDelayMs = DEFAULT_BASE_DELAY_MS
    /\ Idle
    /\ RunNotStarted
    /\ ItemsNotPassed

\* collectIssues(octokit, owner, repo, prNumbers, issueNumbers) returns.
CollectIssuesReturns ==
    /\ phase = "collectIssues"
    /\ \E references \in IssueReferences, fetchedPrs \in SUBSET PullRequestNumbers,
          fetchedIssues \in SUBSET IssueNumbersOfRepo :
        issues' = collectIssues(LinkedIssues(prNumbers, references, fetchedPrs, fetchedIssues),
                                issueNumbers,
                                {n \in fetchedIssues : getIssue(n, fetchedIssues) # None})
    /\ phase' = "collected"
    /\ UNCHANGED <<runnerVars, inputs, analysis, now, retryVars, thrown, failOn, loopVars,
                   analyzedPrs, analyzedIssues, prNumbers, issueNumbers, testablePrs,
                   notTestablePrs, testable, notTestable, tallyVars, labels, outputs,
                   setFailedCalls>>

CollectNext == CollectIssuesReturns

\* One call of collectIssues.
CollectSpec == InitCollect /\ [][CollectNext]_vars

(***************************************************************************)
(* The context formatters: formatIssueContext, formatPrContext             *)
(***************************************************************************)
ISSUE_BODY_LIMIT == 2000
PR_BODY_LIMIT == 2000

\* A body is a sequence of characters. The bodies tried: short ones and ones around the
\* limit, of one repeated character or of two alternating ones.
BodyLengths ==
    (0..MaxOverLimit) \cup ((ISSUE_BODY_LIMIT - MaxOverLimit)..(ISSUE_BODY_LIMIT + MaxOverLimit))
Bodies ==
    {[i \in 1..n |-> "a"] : n \in BodyLengths}
        \cup {[i \in 1..n |-> IF i % 2 = 0 THEN "b" ELSE "a"] : n \in BodyLengths}

\* '... (truncated)'
TruncatedSuffix == <<".", ".", ".", " ", "(", "t", "r", "u", "n", "c", "a", "t", "e", "d", ")">>

\* Variant: the text is cut one character early.
truncateTextCutEarly(text, limit) ==
    IF Len(text) = 0 THEN <<>>
    ELSE IF Len(text) <= limit THEN text
    ELSE SubSeq(text, 1, limit - 1) \o TruncatedSuffix

truncateText(text, limit) ==
    IF Len(text) = 0 THEN <<>>
    ELSE IF Len(text) <= limit THEN text
    ELSE SubSeq(text, 1, limit) \o TruncatedSuffix

\* The context as the parts the template puts together: the title and the embedded body
\* (the labels, the analysis summary and the fixed sentences are left out).
formatIssueContext(issue) ==
    [heading |-> "=== Original Issue Context ===", title |-> issue.title,
     body |-> truncateText(issue.body, ISSUE_BODY_LIMIT)]
formatPrContext(pr) ==
    [heading |-> "=== Pull Request Context ===", title |-> pr.title,
     body |-> truncateText(pr.body, PR_BODY_LIMIT)]

\* An issue or a PR with its body, as getIssue and fetchPrData return it.
WithBody(item, body) == [number |-> item.number, title |-> item.title, body |-> body]

\* The request with its additionalValidationInstructions.
WithValidationInstructions(req, instructions) ==
    [f \in DOMAIN req \cup {"additionalValidationInstructions"} |->
        IF f = "additionalValidationInstructions" THEN instructions ELSE req[f]]

\* runTestForIssue or runTestForPr has just been called with an item that has a body.
InitFormat ==
    /\ runner \in {"issue", "pr"}
    /\ inputs \in RequestInputs
    /\ \E body \in Bodies :
        IF runner = "issue" THEN
            /\ analyzedIssues = <<AnalyzedIssue(WithBody(Issue(1, "Login fails"), body),
                                                ItemAnalysis("", "Log in twice", None))>>
            /\ analyzedPrs = <<>>
            /\ analysis = analyzedIssues[1].analysis
        ELSE
            /\ analyzedPrs = <<AnalyzedPr(WithBody(PullRequest(7, "Add login"), body),
                                          ItemAnalysis("", "Check the login page", None))>>
            /\ analyzedIssues = <<>>
            /\ analysis = analyzedPrs[1].analysis
    /\ pc = "start"
    /\ maxRetries = DEFAULT_MAX_RETRIES
    /\ baseDelayMs = DEFAULT_BASE_DELAY_MS
    /\ Idle
    /\ phase = "none"
    /\ failOn = [failOnError |-> TRUE, failOnFailure |-> TRUE, failOnTimeout |-> FALSE]
    /\ prNumbers = <<>>
    /\ issueNumbers = <<>>
    /\ RunNotStarted

\* runTestForIssue and runTestForPr up to createJob, with the formatted context.
BuildContextRequest ==
    /\ pc = "start"
    /\ IF TestUrl(runner, inputs, analysis) = "" THEN
           ReturnEarly(NoError, NoTestUrlResult(runner, analysis))
       ELSE BeginCreate(WithValidationInstructions(
                            RunnerJobRequest(runner, inputs, analyzedPrs, analyzedIssues),
                            IF runner = "issue" THEN formatIssueContext(analyzedIssues[1].issue)
                            ELSE formatPrContext(analyzedPrs[1].pr)))
    /\ UNCHANGED <<callVars, now, jobId, pollVars, httpVars>>

FormatNext == BuildContextRequest

\* A per-item runner's call up to the request it submits, context included.
FormatSpec == InitFormat /\ [][FormatNext]_vars

(***************************************************************************)
(* Properties of the polling loop                                          *)
(***************************************************************************)
\* pollForCompletion has returned (not thrown).
PollReturned == pollResult # NoPollResult
PollTimedOut == PollReturned /\ pollResult.timedOut = TRUE
PollTerminal == PollReturned /\ pollResult.timedOut = FALSE

\* A step in which a status fetch succeeds: the rest of the tick follows it.
FetchSucceeds == pc = "status" /\ gets' = gets + 1 /\ failures' = failures

\* C1: a tick returns timedOut = true exactly when the elapsed time it took at
\* its top exceeds maxWaitMs and the snapshot it fetched is not terminal; a
\* tick at which that is not so never returns timedOut = true, so the first
\* such tick is the one that returns. The snapshot returned is the last one
\* fetched, and it is not terminal.
C1_TimedOutExactlyWhenElapsedExceeds ==
    /\ [][FetchSucceeds =>
            ((pc' = "done" /\ pollResult'.timedOut = TRUE)
                <=> (elapsed > maxWaitMs' /\ fetched'.status \notin TerminalJobStatus))]_vars
    /\ [](PollTimedOut =>
            /\ pollResult.status = fetched
            /\ fetched.status \notin TerminalJobStatus
            /\ elapsed > maxWaitMs)

\* A call that timed out after more than one tick.
C1_Witness == PollTimedOut /\ gets > 1 /\ elapsed > maxWaitMs

\* C2: a tick that fetches a terminal snapshot returns it with timedOut = false,
\* also when the elapsed time already exceeds maxWaitMs (the terminal check
\* comes first), and no status fetch follows the return.
C2_TerminalReturnsAtOnce ==
    /\ [][(FetchSucceeds /\ fetched'.status \in TerminalJobStatus) =>
            /\ pc' = "done"
            /\ pollResult' = PollResult(fetched', FALSE)]_vars
    /\ [][PollReturned => gets' = gets]_vars
    /\ [](PollTerminal => pollResult.status.status \in TerminalJobStatus)

\* A terminal snapshot fetched by a tick whose elapsed time was over the limit.
C2_Witness == PollTerminal /\ elapsed > maxWaitMs

\* C3: maxWaitMs never decreases, and after every tick it is the largest of
\* its initial value and every result of calculateMaxWaitMs so far.
C3_MaxWaitMonotone ==
    /\ [](maxWaitMs = maxReturned)
    /\ [][maxWaitMs' >= maxWaitMs]_vars

\* The last snapshot asks for less than an earlier one did.
C3_Witness ==
    /\ gets > 1
    /\ fetched # NoSnapshot
    /\ calculateMaxWaitMs(fetched.targetDurationMinutes, fetched.totalExtensionMinutes,
                          fetched.responseDeadline, now) < maxWaitMs
    /\ maxWaitMs > pollInitialMaxWaitMs(inputs.targetDurationMinutes)

\* C4: when the last snapshot carries a responseDeadline D, the call does not
\* return timedOut = true at a tick whose wall-clock time is before D.
C4_NoTimeoutBeforeDeadline ==
    (PollTimedOut /\ fetched.responseDeadline # None) => now >= fetched.responseDeadline[1]

Mapped == pc = "done" /\ PollReturned

\* C6: every runner maps the polling outcome by one table: timed out gives
\* status timeout and success false; completed with a result gives status
\* completed; abandoned gives status abandoned and success false; incomplete,
\* rejected, untestable and error give status error and success false.
C6_OneMappingTable ==
    Mapped =>
        LET finalStatus == pollResult.status
        IN  /\ PollTimedOut =>
                (result.status = "timeout" /\ result.success = Some(FALSE))
            /\ (PollTerminal /\ finalStatus.status = "completed" /\ finalStatus.result # None) =>
                result.status = "completed"
            /\ (PollTerminal /\ finalStatus.status = "abandoned") =>
                (result.status = "abandoned" /\ result.success = Some(FALSE))
            /\ (PollTerminal /\ finalStatus.status
                                    \in {"incomplete", "rejected", "untestable", "error"}) =>
                (result.status = "error" /\ result.success = Some(FALSE))

\* runTestForPr has mapped an abandoned job.
C6_Witness ==
    Mapped /\ runner = "pr" /\ PollTerminal /\ pollResult.status.status = "abandoned"

\* C7: for a completed job with a result, the success a runner returns is the
\* result's data.success.
C7_SuccessIsDataSuccess ==
    (Mapped /\ PollTerminal /\ pollResult.status.status = "completed"
            /\ pollResult.status.result # None) =>
        result.success = pollResult.status.result[1].data.success

\* C8 as stated: no exception reaches the caller of a runner.
C8_NothingReachesTheCaller == thrown = NoError

\* C8: the only exception that reaches a runner's caller is the one
\* runTestWithDescription raises, before any request, when it was given no
\* description, no template and no template content; every error raised while
\* the request is built, the job is created or its status is polled is caught
\* and answered with a result of status error.
C8_OnlyMissingDescriptionReachesTheCaller ==
    /\ thrown # NoError =>
        /\ runner = "description"
        /\ inputs.description = "" /\ inputs.template = "" /\ inputs.templateContent = ""
        /\ posts = 0
        /\ result = NoResult
    /\ caught # NoError =>
        /\ pc = "done"
        /\ thrown = NoError
        /\ result.status = "error"
    /\ pc = "done" => (result # NoResult /\ thrown = NoError)

\* An error of a status fetch was caught by runTestWithDescription.
C8_Witness == caught # NoError /\ pc = "done" /\ runner = "description" /\ gets > 0

\* C9: an exception with message M caught by a runner gives status error,
\* success false, cost 0, duration 0 and the explanation "Error: " followed by M.
C9_ExplanationIsErrorThenMessage ==
    caught # NoError =>
        /\ result.status = "error"
        /\ result.success = Some(FALSE)
        /\ result.costUsd = 0
        /\ result.durationSeconds = 0
        /\ result.explanation = <<"Error: ">> \o caught.message

(***************************************************************************)
(* Properties of withRetry                                                 *)
(***************************************************************************)
\* The markers of a transient error, as the retry policy is specified.
TransientMarkers ==
    {"ECONNRESET", "ETIMEDOUT", "socket hang up", "fetch failed",
     "(503)", "(502)", "(504)", "(500)", "(429)"}
Transient(error) == \E marker \in TransientMarkers : Includes(error.message, marker)

\* C10: withRetry invokes the operation at most maxRetries + 1 times. A
\* non-transient error ends the call at once, propagating that error, so a
\* first error that is not transient means exactly one invocation; when every
\* error is transient the call ends at invocation maxRetries + 1, propagating
\* the last error; and nothing is invoked after a success.
C10_WithRetryInvocations ==
    /\ [](calls <= maxRetries + 1)
    /\ [][calls' = calls + 1 =>
            IF pc' = "returned" THEN thrown' = NoError
            ELSE IF ~Transient(lastError') \/ calls' = maxRetries + 1
                 THEN pc' = "thrown" /\ thrown' = lastError'
                 ELSE pc' = "retry" /\ thrown' = NoError]_vars
    /\ [][(pc = "returned" \/ pc = "thrown") => calls' = calls]_vars
    /\ []((pc = "thrown" /\ Transient(thrown)) => calls = maxRetries + 1)

\* Every invocation failed with a transient error and the last one was rethrown.
C10_Witness ==
    pc = "thrown" /\ Transient(thrown) /\ maxRetries = DEFAULT_MAX_RETRIES /\ calls = maxRetries + 1

\* C11: after the k-th failed transient attempt (k = 0, 1, ...) that is not
\* the last one, withRetry waits baseDelayMs * 2^k and logs one warning; after
\* a non-transient error, after the last attempt and after a success it
\* neither waits nor warns. With the default base the waits are 1 s, 2 s, 4 s.
C11_BackoffAndWarnings ==
    /\ [][calls' = calls + 1 =>
            IF pc' = "retry"
            THEN /\ now' - now = baseDelayMs * 2^calls
                 /\ retryWarnings' = retryWarnings + 1
            ELSE /\ now' = now
                 /\ retryWarnings' = retryWarnings]_vars
    /\ [](retryWarnings = IF pc = "retry" THEN calls ELSE calls - 1)
    /\ [](now = baseDelayMs * (2^retryWarnings - 1))
    /\ []((baseDelayMs = 1000 /\ retryWarnings = 3) => now = 1000 + 2000 + 4000)

\* Three retries with the default base, then the fourth failure is rethrown.
C11_Witness ==
    /\ pc = "thrown"
    /\ baseDelayMs = DEFAULT_BASE_DELAY_MS
    /\ retryWarnings = 3
    /\ now = 7000

(***************************************************************************)
(* Properties of job creation                                              *)
(***************************************************************************)
\* 401 and every other 4xx status except 429.
ClientErrorStatuses == (400..499) \ {429}

\* C12: a create-job request answered with 401 or another 4xx status other
\* than 429 is not retried, whatever the response body is: after such an
\* answer the runner is no longer in the retry loop of createJob, it has
\* caught the error.
C12_ClientErrorNeverRetried ==
    (posts > 0 /\ gets = 0 /\ httpStatus \in ClientErrorStatuses) =>
        (pc = "done" /\ caught = lastError)

(***************************************************************************)
(* Properties of calculateMaxWaitMs                                        *)
(***************************************************************************)
\* totalExtensionMinutes || 0
ExtensionOf(status) ==
    IF status.totalExtensionMinutes = None THEN 0 ELSE status.totalExtensionMinutes[1]

\* C13: with a responseDeadline D the result is the larger of D - now + 5 min
\* and 30 min, whatever target and extension are; so it is never below 30 min,
\* also when D has passed, and D two minutes ahead gives 30 min.
C13_DeadlineHasPriorityWithFloor ==
    (fetched # NoSnapshot /\ fetched.responseDeadline # None) =>
        LET remaining == fetched.responseDeadline[1] - now
        IN  /\ calculatedMaxWaitMs =
                    IF remaining + 300000 >= 1800000 THEN remaining + 300000 ELSE 1800000
            /\ calculatedMaxWaitMs >= 1800000
            /\ remaining = 120000 => calculatedMaxWaitMs = 1800000

\* The deadline has passed and the snapshot also carries a target and an extension.
C13_Witness ==
    /\ fetched # NoSnapshot
    /\ fetched.responseDeadline # None
    /\ fetched.responseDeadline[1] < now
    /\ fetched.targetDurationMinutes = Some(10)
    /\ fetched.totalExtensionMinutes = Some(30)
    /\ calculatedMaxWaitMs = 1800000

\* C14: without a responseDeadline the result is (target + (extension or 0))
\* minutes plus 5 min when a target is present (target 10 and extension 5 give
\* 1,200,000 ms), and 30 min when no target is present either.
C14_TargetPlusExtension ==
    (fetched # NoSnapshot /\ fetched.responseDeadline = None) =>
        /\ fetched.targetDurationMinutes # None =>
            calculatedMaxWaitMs =
                (fetched.targetDurationMinutes[1] + ExtensionOf(fetched)) * 60000 + 300000
        /\ (fetched.targetDurationMinutes = Some(10) /\ fetched.totalExtensionMinutes = Some(5)) =>
            calculatedMaxWaitMs = 1200000
        /\ fetched.targetDurationMinutes = None => calculatedMaxWaitMs = 1800000

\* Target 10 and extension 5 without a deadline.
C14_Witness ==
    /\ fetched # NoSnapshot
    /\ fetched.responseDeadline = None
    /\ fetched.targetDurationMinutes = Some(10)
    /\ fetched.totalExtensionMinutes = Some(5)
    /\ calculatedMaxWaitMs = 1200000

\* C15: of two successive calls in one session with the same deadline, the
\* same target and the same or a larger extension on the later call, the later
\* one does not return less than the earlier one.
C15_NonDecreasingAcrossCalls ==
    [][(/\ fetched # NoSnapshot
        /\ gets' = gets + 1
        /\ fetched'.responseDeadline = fetched.responseDeadline
        /\ fetched'.targetDurationMinutes = fetched.targetDurationMinutes
        /\ ExtensionOf(fetched') >= ExtensionOf(fetched))
            => calculatedMaxWaitMs' >= calculatedMaxWaitMs]_vars

(***************************************************************************)
(* Properties of the jobs created                                          *)
(***************************************************************************)
\* C16: one call of runConsolidatedTest never makes the remote service create
\* more than one job, and when it returns a result carrying a job id the
\* service has created exactly one, however the create request failed and
\* was retried.
C16_ExactlyOneJob ==
    runner = "consolidated" =>
        /\ jobs <= 1
        /\ (pc = "done" /\ result # NoResult /\ result.jobId # Undef) => jobs = 1

\* C20: whatever runTestWithDescription returns once polling has returned
\* (completed, abandoned, remote error, timeout), the result's jobId is the id
\* job creation returned, its jobUrl is the final snapshot's jobUrl (absent
\* when the snapshot has none), and its costUsd and durationSeconds are the
\* snapshot's costUsd and testDurationSeconds, 0 when absent.
C20_ResultCarriesJobData ==
    (Mapped /\ runner = "description") =>
        LET finalStatus == pollResult.status
        IN  /\ result.jobId = jobId
            /\ jobId = "job_1"
            /\ result.jobUrl = finalStatus.jobUrl
            /\ result.costUsd =
                    IF finalStatus.costUsd = None THEN 0 ELSE finalStatus.costUsd[1]
            /\ result.durationSeconds =
                    IF finalStatus.testDurationSeconds = None THEN 0
                    ELSE finalStatus.testDurationSeconds[1]

\* A timed-out call whose last snapshot carried a job URL, a cost and a duration.
C20_Witness ==
    /\ Mapped
    /\ runner = "description"
    /\ PollTimedOut
    /\ result.jobUrl # NoText
    /\ result.costUsd = 3
    /\ result.durationSeconds = 180

(***************************************************************************)
(* Properties of run(): the workflow's failure                             *)
(***************************************************************************)
\* run() is over and the runner it called returned a result.
RunReturnedResult == phase = "finished" /\ result # NoResult

WorkflowFailed == setFailedCalls # <<>>

\* The kind of a job result: error (error or abandoned), timeout, failure or success.
ResultKind(res) ==
    IF res.status = "error" \/ res.status = "abandoned" THEN "error"
    ELSE IF res.status = "timeout" THEN "timeout"
    ELSE IF res.success = Some(TRUE) THEN "success"
    ELSE "failure"

\* C17: when the job's result is of kind k (error, failure or timeout) and
\* fail-on-k is false, the workflow is not marked failed, whatever the other
\* two flags are, in the description-only path and in the consolidated path.
C17_FailureDrivenByMatchingFlag ==
    RunReturnedResult =>
        /\ (ResultKind(result) = "error" /\ ~failOn.failOnError) => ~WorkflowFailed
        /\ (ResultKind(result) = "failure" /\ ~failOn.failOnFailure) => ~WorkflowFailed
        /\ (ResultKind(result) = "timeout" /\ ~failOn.failOnTimeout) => ~WorkflowFailed

\* The analysis of a PR or of an issue failed: withRetry rethrew its last error
\* and run() ended in its catch block before any runner was called.
AnalysisFailed ==
    /\ phase = "finished"
    /\ runner = Undef
    /\ thrown # NoError
    /\ thrown = lastError

\* C18: if the testability analysis of a PR or an issue fails (with a
\* non-transient error, or with a transient one on all maxRetries + 1 attempts), the action
\* is marked failed with the error's message, the item is in neither the
\* testable nor the not-testable list, no job is created, no label is applied
\* and no output is set, whatever the fail-on flags are.
C18_AnalysisFailureFailsTheAction ==
    AnalysisFailed =>
        /\ setFailedCalls = <<thrown.message>>
        /\ calls = attempt + 1
        /\ isTransientError(thrown) => calls = maxRetries + 1
        /\ \/ Len(testablePrs) + Len(notTestablePrs) < Len(prNumbers)
           \/ Len(testable) + Len(notTestable) < Len(issues)
        /\ jobs = 0
        /\ posts = 0
        /\ labels = {}
        /\ outputs = NoOutputs

\* An issue's analysis fails with a transient error on every attempt, after
\* another issue was found testable, with all three fail-on flags false.
C18_Witness ==
    /\ AnalysisFailed
    /\ isTransientError(thrown)
    /\ calls = DEFAULT_MAX_RETRIES + 1
    /\ testable # <<>>
    /\ failOn = [failOnError |-> FALSE, failOnFailure |-> FALSE, failOnTimeout |-> FALSE]

\* createJob failed on its last attempt and the runner caught the error.
JobCreationFailed == phase = "finished" /\ caught # NoError /\ posts > 0 /\ gets = 0

RemoteFailureStatuses == {"abandoned", "rejected", "untestable", "error"}

\* A runner has mapped a terminal snapshot whose status is a remote failure.
MappedRemoteFailure ==
    Mapped /\ PollTerminal /\ pollResult.status.status \in RemoteFailureStatuses

\* C21 as stated: for a terminal snapshot of status abandoned, rejected,
\* untestable or error the explanation is the snapshot's error or reason when
\* one is present, and "Job ended with status: X" otherwise.
C21_ExplanationFromErrorOrReason ==
    MappedRemoteFailure =>
        LET finalStatus == pollResult.status
        IN  IF finalStatus.error # NoText \/ finalStatus.reason # NoText THEN
                result.explanation \in {finalStatus.error, finalStatus.reason} \ {NoText}
            ELSE result.explanation = <<"Job ended with status: ", finalStatus.status>>

\* C21, as the code has it: for rejected, untestable and error the explanation
\* is the error if present, else the reason if present, else "Job ended with
\* status: X"; for abandoned it is the reason if present (the error is not
\* read), else "Test was abandoned".
C21_ExplanationPerStatus ==
    MappedRemoteFailure =>
        LET finalStatus == pollResult.status
        IN  result.explanation =
                IF finalStatus.status = "abandoned" THEN
                    IF finalStatus.reason # NoText THEN finalStatus.reason
                    ELSE <<"Test was abandoned">>
                ELSE IF finalStatus.error # NoText THEN finalStatus.error
                ELSE IF finalStatus.reason # NoText THEN finalStatus.reason
                ELSE <<"Job ended with status: ", finalStatus.status>>

\* runConsolidatedTest has mapped a rejected job that reports both an error and
\* a reason: the explanation is the error.
C21_Witness ==
    /\ MappedRemoteFailure
    /\ runner = "consolidated"
    /\ pollResult.status.status = "rejected"
    /\ pollResult.status.error # NoText
    /\ pollResult.status.reason # NoText
    /\ result.explanation = pollResult.status.error

(***************************************************************************)
(* Properties of the checks made before the job is created                 *)
(***************************************************************************)
NoNetworkCall == posts = 0 /\ gets = 0 /\ jobs = 0 /\ request = NoRequest

\* runTestWithDescription was called and has gone past its checks.
DescriptionRunnerEntered == runner = "description" /\ pc # "start"

\* C22: runTestWithDescription detects configuration errors before any network
\* call: with no description, template name or template content it throws
\* "Description is required ..."; with a description or template content but
\* neither URL nor template it ends with the error "URL is required ..."; in
\* both cases no request is sent and no job is created.
C22_ConfigurationErrorsBeforeAnyCall ==
    DescriptionRunnerEntered =>
        /\ (inputs.description = "" /\ inputs.template = "" /\ inputs.templateContent = "") =>
              /\ pc = "thrown"
              /\ thrown = Error("Error",
                                <<"Description is required when no issues are provided. ",
                                  "Provide via description input, template, or template-file.">>)
              /\ result = NoResult
              /\ NoNetworkCall
        /\ (inputs.description # "" /\ inputs.url = "" /\ inputs.template = ""
                /\ inputs.templateContent = "") =>
              /\ pc = "done"
              /\ caught = Error("Error", <<"URL is required - provide via url input or template">>)
              /\ result.status = "error"
              /\ result.success = Some(FALSE)
              /\ thrown = NoError
              /\ NoNetworkCall

\* runTestWithDescription was called with a description and no URL.
C22_Witness ==
    /\ DescriptionRunnerEntered
    /\ inputs.description # ""
    /\ inputs.url = ""
    /\ pc = "done"
    /\ posts = 0
    /\ caught # NoError

\* runTestForIssue was called and has gone past its check of the test URL.
IssueRunnerEntered == runner = "issue" /\ pc # "start"

\* C23: runTestForIssue tests at the analysis's test URL when it has one and at
\* the configured URL otherwise; with neither it returns the result {status
\* error, success false, explanation "No test URL available", cost 0,
\* duration 0} and sends no request.
C23_IssueTestUrl ==
    IssueRunnerEntered =>
        IF analysis.testUrl # "" THEN request.url = analysis.testUrl
        ELSE IF inputs.url # "" THEN request.url = inputs.url
        ELSE /\ pc = "done"
             /\ result = RunhumanJobResult(Some(FALSE), <<"No test URL available">>, None, 0, 0,
                                           "error", Some(analysis), Undef, NoText)
             /\ caught = NoError
             /\ thrown = NoError
             /\ NoNetworkCall

\* runTestForIssue was called with both URLs set and has created its job at
\* the analysis's.
C23_Witness ==
    /\ IssueRunnerEntered
    /\ analysis.testUrl # ""
    /\ inputs.url # ""
    /\ analysis.testUrl # inputs.url
    /\ posts > 0
    /\ request.url = analysis.testUrl

\* runTestForIssue was called with neither URL and has returned.
C23_NoUrlReached == IssueRunnerEntered /\ analysis.testUrl = "" /\ inputs.url = "" /\ pc = "done"

(***************************************************************************)
(* Properties of the request of the consolidated job                       *)
(***************************************************************************)
\* runConsolidatedTest has built its request and is about to create the job.
ConsolidatedSubmitted == runner = "consolidated" /\ pc = "create"

ItemCount == Len(analyzedPrs) + Len(analyzedIssues)

\* The i-th item, all PRs before all issues: its heading and its instructions.
ItemHeading(i) ==
    IF i <= Len(analyzedPrs) THEN
        "## PR #" \o ToString(analyzedPrs[i].pr.number) \o ": " \o analyzedPrs[i].pr.title
    ELSE
        LET item == analyzedIssues[i - Len(analyzedPrs)]
        IN  "## Issue #" \o ToString(item.issue.number) \o ": " \o item.issue.title

ItemInstructions(i) ==
    IF i <= Len(analyzedPrs) THEN analyzedPrs[i].analysis.testInstructions
    ELSE analyzedIssues[i - Len(analyzedPrs)].analysis.testInstructions

\* C24: the consolidated description is, for exactly one item, that item's
\* test instructions alone, with no heading; for two or more items it is one
\* section per item, heading then blank line then instructions, the PRs in
\* input order before the issues in input order, with the separator
\* "\n\n---\n\n" between consecutive sections and nowhere else.
C24_ConsolidatedDescription ==
    ConsolidatedSubmitted =>
        LET description == request.description
        IN  IF ItemCount = 1 THEN description = <<ItemInstructions(1)>>
            ELSE /\ Len(description) = 4 * ItemCount - 1
                 /\ \A i \in 1..ItemCount :
                        /\ description[4 * (i - 1) + 1] = ItemHeading(i)
                        /\ description[4 * (i - 1) + 2] = "\n\n"
                        /\ description[4 * (i - 1) + 3] = ItemInstructions(i)
                 /\ \A i \in 1..(ItemCount - 1) : description[4 * i] = "\n\n---\n\n"

\* A job for two PRs and one issue.
C24_Witness ==
    /\ ConsolidatedSubmitted
    /\ Len(analyzedPrs) = 2
    /\ Len(analyzedIssues) = 1
    /\ Len(request.description) = 11

\* A job for one issue alone: the description is its instructions.
C24_SingleItemReached ==
    /\ ConsolidatedSubmitted
    /\ ItemCount = 1
    /\ Len(analyzedIssues) = 1
    /\ request.description = <<analyzedIssues[1].analysis.testInstructions>>

\* C25: the consolidated metadata has the single reference (githubPR,
\* githubIssue) when there is exactly one PR, exactly one issue, and the list
\* reference (githubPRs, githubIssues), in input order, when there are more;
\* for each kind the two forms are never both set, and neither is set when the
\* kind has no item.
C25_SingularOrListReference ==
    ConsolidatedSubmitted =>
        LET metadata == request.metadata
        IN  /\ CASE Len(analyzedPrs) = 0 ->
                        metadata.githubPR = None /\ metadata.githubPRs = None
                 [] Len(analyzedPrs) = 1 ->
                        /\ metadata.githubPR # None
                        /\ metadata.githubPR[1].prNumber = analyzedPrs[1].pr.number
                        /\ metadata.githubPRs = None
                 [] OTHER ->
                        /\ metadata.githubPR = None
                        /\ metadata.githubPRs # None
                        /\ Len(metadata.githubPRs[1]) = Len(analyzedPrs)
                        /\ \A i \in DOMAIN analyzedPrs :
                              metadata.githubPRs[1][i].prNumber = analyzedPrs[i].pr.number
            /\ CASE Len(analyzedIssues) = 0 ->
                        metadata.githubIssue = None /\ metadata.githubIssues = None
                 [] Len(analyzedIssues) = 1 ->
                        /\ metadata.githubIssue # None
                        /\ metadata.githubIssue[1].issueNumber = analyzedIssues[1].issue.number
                        /\ metadata.githubIssues = None
                 [] OTHER ->
                        /\ metadata.githubIssue = None
                        /\ metadata.githubIssues # None
                        /\ Len(metadata.githubIssues[1]) = Len(analyzedIssues)
                        /\ \A i \in DOMAIN analyzedIssues :
                              metadata.githubIssues[1][i].issueNumber
                                  = analyzedIssues[i].issue.number

\* A job for one PR and two issues: githubPR and githubIssues are set.
C25_Witness ==
    /\ ConsolidatedSubmitted
    /\ Len(analyzedPrs) = 1
    /\ Len(analyzedIssues) = 2
    /\ request.metadata.githubPR # None
    /\ request.metadata.githubIssues # None

(***************************************************************************)
(* Properties of the request of every runner                               *)
(***************************************************************************)
\* A runner has built its request and is about to create the job.
RequestSubmitted == pc = "create" /\ request # NoRequest

\* The references a JobMetadata carries.
ReferencesOf(metadata) ==
    {kind \in {"githubPR", "githubPRs", "githubIssue", "githubIssues"} : metadata[kind] # None}

\* C26 as stated: the metadata of a submitted job carries at most one of the
\* four references, for every runner and every mix of PRs and issues.
C26_AtMostOneReference ==
    RequestSubmitted => Cardinality(ReferencesOf(request.metadata)) <= 1

\* C26, as the code has it: the metadata carries at most one PR reference
\* (single or list) and at most one issue reference (single or list): none for
\* runTestWithDescription, the single issue for runTestForIssue, the single PR
\* for runTestForPr, and for runConsolidatedTest one per kind that has items.
C26_AtMostOneReferencePerKind ==
    RequestSubmitted =>
        LET references == ReferencesOf(request.metadata)
        IN  /\ Cardinality(references \cap {"githubPR", "githubPRs"}) <= 1
            /\ Cardinality(references \cap {"githubIssue", "githubIssues"}) <= 1
            /\ runner = "description" => references = {}
            /\ runner = "issue" => references = {"githubIssue"}
            /\ runner = "pr" => references = {"githubPR"}
            /\ runner = "consolidated" =>
                  /\ (references \cap {"githubPR", "githubPRs"} # {}) <=> Len(analyzedPrs) > 0
                  /\ (references \cap {"githubIssue", "githubIssues"} # {})
                        <=> Len(analyzedIssues) > 0

\* A job for two PRs and one issue: its metadata carries two references.
C26_Witness ==
    /\ RequestSubmitted
    /\ runner = "consolidated"
    /\ Len(analyzedPrs) = 2
    /\ Len(analyzedIssues) = 1
    /\ ReferencesOf(request.metadata) = {"githubPRs", "githubIssue"}

\* The output schema of the i-th item, all PRs before all issues.
ItemOutputSchema(i) ==
    IF i <= Len(analyzedPrs) THEN analyzedPrs[i].analysis.outputSchema
    ELSE analyzedIssues[i - Len(analyzedPrs)].analysis.outputSchema

\* C27: the output schema of the consolidated job is the schema of the first
\* item that has one, all PRs in order before all issues in order; it is
\* undefined only when no item has a schema.
C27_FirstAvailableOutputSchema ==
    ConsolidatedSubmitted =>
        LET withSchema == {i \in 1..ItemCount : ItemOutputSchema(i) # None}
        IN  IF withSchema = {} THEN request.outputSchema = None
            ELSE \E first \in withSchema :
                    /\ \A i \in withSchema : first <= i
                    /\ request.outputSchema = ItemOutputSchema(first)

\* A description with no text in it.
EmptyDescription(description) == \A i \in 1..Len(description) : description[i] = ""

\* C28: every JobRequest a runner submits has both a url and a description, or
\* a template reference (a template name or a template content).
C28_RequestInvariant ==
    RequestSubmitted =>
        \/ request.url # "" /\ ~EmptyDescription(request.description)
        \/ request.template # ""
        \/ request.templateContent # ""

\* The runner calls whose job is being polled.
CallsPolling == {i \in DOMAIN runnerCalls : runnerCalls[i].pc = "poll"}

\* C29: run() runs the jobs one after the other: the job of a later item exists only
\* once the runner of every earlier item has returned its result, at most one job is
\* being polled at any time, and each job id is polled by one runner call only.
C29_JobsRunSequentially ==
    /\ \A i, j \in DOMAIN runnerCalls :
          (i < j /\ runnerCalls[j].jobId # None) =>
              /\ runnerCalls[i].pc = "returned"
              /\ runnerCalls[i].result # NoResult
    /\ Cardinality(CallsPolling) <= 1
    /\ \A f, g \in statusFetches : f[1] = g[1] => f[2] = g[2]

\* The job of the second issue is being polled after the first issue's job was polled
\* and its runner returned.
C29_Witness ==
    /\ runner = "issue"
    /\ Len(runnerCalls) = 2
    /\ runnerCalls[1].pc = "returned"
    /\ runnerCalls[1].jobId # None
    /\ runnerCalls[2].pc = "poll"
    /\ runnerCalls[2].jobId # runnerCalls[1].jobId
    /\ \E f, g \in statusFetches : f[2] = 1 /\ g[2] = 2

\* The consolidated run polls its one job for several items.
C29_ConsolidatedReached ==
    /\ runner = "consolidated"
    /\ Len(runnerCalls) = 1
    /\ Len(runnerCalls[1].items) > 1
    /\ runnerCalls[1].pc = "poll"
    /\ statusFetches # {}

CollectIssuesReturned == phase = "collected"

\* C30: collectIssues returns each issue at most once, whatever the PR-number and
\* issue-number lists (overlapping, with repeated references): no two returned issues
\* have the same number, and no returned number is a pull request's.
C30_EachIssueAtMostOnce ==
    CollectIssuesReturned =>
        /\ \A i, j \in DOMAIN issues : i # j => issues[i] # issues[j]
        /\ \A i \in DOMAIN issues : issues[i] \notin PullRequestNumbers

\* One issue is returned for issue numbers that name it twice and name a pull request
\* as well, next to a PR of the input.
C30_Witness ==
    /\ CollectIssuesReturned
    /\ Len(prNumbers) > 0
    /\ \E i, j \in DOMAIN issueNumbers : i # j /\ issueNumbers[i] = issueNumbers[j]
    /\ 7 \in Range(issueNumbers)
    /\ Len(issues) = 1
    /\ issues[1] \in Range(issueNumbers)

\* The body passed to the formatter and the body embedded in the context.
FormattedBody == IF runner = "issue" THEN analyzedIssues[1].issue.body ELSE analyzedPrs[1].pr.body
EmbeddedBody == request.additionalValidationInstructions.body
ContextSubmitted == pc = "create" /\ "additionalValidationInstructions" \in DOMAIN request

\* C31: the context formatters embed a body of at most 2000 characters unchanged and cut
\* a longer one to its first 2000 characters followed by "... (truncated)"; the embedded
\* body is never longer than 2000 characters plus the suffix.
C31_BodyTruncation ==
    ContextSubmitted =>
        /\ Len(FormattedBody) <= 2000 => EmbeddedBody = FormattedBody
        /\ Len(FormattedBody) > 2000 =>
              /\ SubSeq(EmbeddedBody, 1, 2000) = SubSeq(FormattedBody, 1, 2000)
              /\ SubSeq(EmbeddedBody, 2001, Len(EmbeddedBody)) = TruncatedSuffix
        /\ Len(EmbeddedBody) <= 2000 + Len(TruncatedSuffix)

\* A body of 2001 characters has been cut.
C31_Witness ==
    /\ ContextSubmitted
    /\ Len(FormattedBody) = 2001
    /\ Len(EmbeddedBody) = 2015

\* A body of exactly 2000 characters has been embedded.
C31_AtLimitReached ==
    /\ ContextSubmitted
    /\ Len(FormattedBody) = 2000
    /\ EmbeddedBody = FormattedBody

\* C32: within one pollForCompletion call every tick has one status fetch and two
\* consecutive ticks are separated by one sleep of POLL_INTERVAL_MS, with no sleep after
\* the tick that returns: n ticks, n fetches and n - 1 sleeps, and the clock has advanced by
\* the fetches' latencies and the sleeps only.
C32_OneFetchPerTickOneSleepBetween ==
    /\ sleeps = ticks - 1
    /\ gets = IF PollReturned THEN ticks ELSE ticks - 1
    /\ now - startTime = sleeps * 10000 + (gets - fastFetches) * SlowFetchMs
    /\ ~PollReturned => elapsed = now - startTime

\* Three snapshots were fetched, the third one completed: three ticks and two sleeps.
C32_Witness ==
    /\ PollReturned
    /\ pollResult.timedOut = FALSE
    /\ pollResult.status.status = "completed"
    /\ gets = 3
    /\ ticks = 3
    /\ sleeps = 2

\* `Job ${jobId} not found`
JobNotFoundMessage == <<"Job ", jobId, " not found">>
\* The last status fetch was answered with 404.
StatusFetchNotFound == jobId # Undef /\ lastError.message = JobNotFoundMessage

\* C33: a status fetch answered with 404 raises "Job {id} not found" and is not retried:
\* polling ends with that request, the runner returns an error result whose explanation
\* contains the message, and no status fetch follows.
C33_NotFoundEndsPolling ==
    [][/\ StatusFetchNotFound' =>
              /\ httpStatus' = 404
              /\ pc' = "done"
              /\ caught' = lastError'
              /\ result'.status = "error"
              /\ result'.success = Some(FALSE)
              /\ \E i \in DOMAIN result'.explanation :
                    SubSeq(result'.explanation, i, i + 2) = JobNotFoundMessage'
       /\ StatusFetchNotFound => gets' = gets]_vars

\* The second tick's fetch was answered with 404 and the runner returned.
C33_Witness ==
    /\ StatusFetchNotFound
    /\ pc = "done"
    /\ ticks = 2
    /\ gets = 2
    /\ result.status = "error"

\* The runner returned for a final snapshot with status completed and no result.
CompletedWithoutResult ==
    /\ pc = "done"
    /\ PollReturned
    /\ pollResult.timedOut = FALSE
    /\ pollResult.status.status = "completed"
    /\ pollResult.status.result = None

\* C34: a terminal snapshot with status completed but no result is not reported as
\* completed: the result has status error and success false, and, when the snapshot has
\* neither error nor reason, the explanation "Job ended with status: completed".
C34_CompletedWithoutResultIsError ==
    CompletedWithoutResult =>
        /\ result.status = "error"
        /\ result.success = Some(FALSE)
        /\ (pollResult.status.error = NoText /\ pollResult.status.reason = NoText) =>
              result.explanation = <<"Job ended with status: ", "completed">>

\* The description runner returned for a completed snapshot with no result and no text.
C34_Witness ==
    /\ CompletedWithoutResult
    /\ runner = "description"
    /\ pollResult.status.error = NoText
    /\ pollResult.status.reason = NoText
    /\ result.explanation = <<"Job ended with status: ", "completed">>

\* createJob returned a job id in this call.
JobCreated == jobId # Undef

\* C35: whenever job creation has succeeded, the result the runner returns carries the
\* id of that job, whatever happens afterwards, also when a later status fetch fails for
\* good and polling ends with an exception.
C35_ResultCarriesJobId ==
    (pc = "done" /\ JobCreated) => result.jobId = jobId

\* pollForCompletion ended with an exception, which the runner caught.
PollingThrew == pc = "done" /\ JobCreated /\ caught # NoError

\* C36: the status fetch of each tick has its own retry budget: failures recovered on
\* earlier ticks take nothing from the maxRetries + 1 attempts of a later tick, and
\* polling ends with an exception only when one tick sees a non-transient error or
\* maxRetries + 1 transient failures in a row.
C36_RetryBudgetPerTick ==
    /\ (pc = "status") => (calls = attempt /\ attempt <= maxRetries)
    /\ PollingThrew =>
          /\ caught = lastError
          /\ calls = attempt + 1
          /\ isTransientError(caught) => calls = maxRetries + 1

\* A failure was recovered on the first tick and the second tick used up its four
\* attempts.
C36_Witness ==
    /\ PollingThrew
    /\ isTransientError(caught)
    /\ ticks = 2
    /\ calls = 4
    /\ gets = 6
    /\ failures = 5

\* initialTargetMinutes * 60 * 1000 + BUFFER_MS, or DEFAULT_MAX_WAIT_MS without a target.
InitialLimitMs ==
    IF inputs.targetDurationMinutes = None THEN 30 * 60 * 1000
    ELSE (inputs.targetDurationMinutes[1] + 5) * 60 * 1000

\* C37: for a job that stays non-terminal and whose snapshots carry no scheduling fields,
\* pollForCompletion reports the timeout at the first tick whose elapsed time exceeds
\* T minutes plus the buffer when called with initialTargetMinutes = T (10 minutes for
\* T = 5), and DEFAULT_MAX_WAIT without an initial target.
C37_TimeoutAtInitialLimit ==
    [][FetchSucceeds =>
          ((pc' = "done" /\ pollResult'.timedOut = TRUE) <=> elapsed > InitialLimitMs)]_vars

\* A runner has returned its result.
RunnerReturnedResult == pc = "done" /\ result # NoResult

\* C38: in every result a runner returns, success = true implies status completed:
\* results with status timeout, abandoned or error, those of the early returns and of
\* the catch blocks included, have success = false.
C38_SuccessImpliesCompleted ==
    RunnerReturnedResult =>
        /\ result.success = Some(TRUE) => result.status = "completed"
        /\ result.status \in {"timeout", "abandoned", "error"} => result.success = Some(FALSE)
        /\ result.status \in {"completed", "timeout", "abandoned", "error"}

\* The PR runner returned a timeout, with success false.
C38_Witness ==
    /\ RunnerReturnedResult
    /\ runner = "pr"
    /\ result.status = "timeout"
    /\ result.success = Some(FALSE)

\* A completed result with success true, and an abandoned one, are returned too.
C38_SuccessReached == RunnerReturnedResult /\ result.success = Some(TRUE)
C38_AbandonedReached == RunnerReturnedResult /\ result.status = "abandoned"

\* run() has awaited the one job of the consolidated path and applied its outcome.
ConsolidatedJobApplied == phase = "finished" /\ runner = "consolidated"

\* outputs.testedIssues: testable.map(t => t.issue.number)
testedIssues == Range(testable)

\* outputs.notTestableIssues: notTestable.map(t => t.issue.number)
notTestableIssues == Range(notTestable)

\* An item of the tested ones is in the list of outcome o, and in no other list.
InListOfOutcome(n, o, passed, failed, timedOut) ==
    /\ (n \in Range(passed)) <=> (o = "success")
    /\ (n \in Range(failed)) <=> (o = "failure")
    /\ (n \in Range(timedOut)) <=> (o = "timeout")

\* C39: in the consolidated orchestrator every tested PR and issue receives the outcome
\* of the single job; passedIssues, failedIssues and timedOutIssues are pairwise
\* disjoint subsets of testedIssues, disjoint from notTestableIssues, and each tested
\* issue is in exactly the list of the outcome, which is none of them when the outcome
\* is error.
C39_OneOutcomeForAllTested ==
    /\ Range(passedIssues) \cup Range(failedIssues) \cup Range(timedOutIssues) \subseteq testedIssues
    /\ Range(passedPrs) \cup Range(failedPrs) \cup Range(timedOutPrs) \subseteq Range(testablePrs)
    /\ Range(passedIssues) \cap Range(failedIssues) = {}
    /\ Range(passedIssues) \cap Range(timedOutIssues) = {}
    /\ Range(failedIssues) \cap Range(timedOutIssues) = {}
    /\ (Range(passedIssues) \cup Range(failedIssues) \cup Range(timedOutIssues))
           \cap notTestableIssues = {}
    /\ ConsolidatedJobApplied =>
          LET outcome == consolidatedOutcome(result)
          IN  /\ \A n \in testedIssues :
                    /\ <<n, outcome>> \in labels
                    /\ \A l \in labels : l[1] = n => l[2] = outcome
                    /\ InListOfOutcome(n, outcome, passedIssues, failedIssues, timedOutIssues)
              /\ \A n \in Range(testablePrs) :
                    InListOfOutcome(n, outcome, passedPrs, failedPrs, timedOutPrs)
              /\ hasError <=> (outcome = "error")

\* The job of a testable PR and a testable issue ended in error, beside an issue found
\* not testable: the PR and the issue are in no list.
C39_Witness ==
    /\ ConsolidatedJobApplied
    /\ consolidatedOutcome(result) = "error"
    /\ testable # <<>>
    /\ testablePrs # <<>>
    /\ notTestable # <<>>
    /\ passedIssues = <<>> /\ failedIssues = <<>> /\ timedOutIssues = <<>>
    /\ passedPrs = <<>> /\ failedPrs = <<>> /\ timedOutPrs = <<>>

\* Two tested issues passed together, and a tested issue and a tested PR timed out
\* together.
C39_PassedReached == ConsolidatedJobApplied /\ Len(passedIssues) = 2 /\ passedIssues = testable
C39_TimedOutReached ==
    /\ ConsolidatedJobApplied
    /\ timedOutIssues = testable /\ testable # <<>>
    /\ timedOutPrs = testablePrs /\ testablePrs # <<>>

\* run() has called setOutputs.
RunOutputsSet == phase = "finished" /\ outputs # NoOutputs

\* run() went past its two early paths and computed the outputs from the tracking arrays.
TrackedOutputsSet ==
    RunOutputsSet /\ runner # "description" /\ outputs.status # "no-issues"

\* The result of the job was error or abandoned.
JobErred == result # NoResult /\ result.status \in {"error", "abandoned"}

AnyTimedOut == timedOutIssues # <<>> \/ timedOutPrs # <<>>
AnyFailed == failedIssues # <<>> \/ failedPrs # <<>>

\* error for a job in error or abandoned, otherwise timeout when an item timed out,
\* otherwise completed.
ExpectedStatus ==
    IF JobErred THEN "error" ELSE IF AnyTimedOut THEN "timeout" ELSE "completed"

\* Every PR and issue of the run was found not testable.
AllNotTestable ==
    /\ testable = <<>> /\ testablePrs = <<>>
    /\ notTestable # <<>> \/ notTestablePrs # <<>>

\* C40 as stated: the output status is error when the job result was error or abandoned,
\* otherwise timeout when any item timed out, otherwise completed; the output success is
\* true exactly when no tested item failed or timed out and no error occurred; so
\* success true implies status completed, and a run in which every item was not
\* testable reports success true.
C40_SuccessImpliesCompleted ==
    RunOutputsSet =>
        /\ outputs.status = ExpectedStatus
        /\ outputs.success = Some(~AnyFailed /\ ~AnyTimedOut /\ ~JobErred)
        /\ outputs.success = Some(TRUE) => outputs.status = "completed"
        /\ AllNotTestable => outputs.success = Some(TRUE)

\* C40, as the code has it: when run() goes past its two early paths, the output status
\* is error when the job result was error or abandoned, otherwise timeout when any item
\* timed out, otherwise completed, and the output success is true exactly when no tested
\* item failed or timed out and no error occurred, so that a run in which every issue
\* was not testable reports completed and success true; over all runs success true
\* implies status completed or, for the run with nothing to test and no description,
\* no-issues; a run whose PRs were all not testable and which has a description reports
\* the result of the description test.
C40_OutputStatusAndSuccess ==
    RunOutputsSet =>
        /\ TrackedOutputsSet =>
              /\ outputs.status = ExpectedStatus
              /\ outputs.success = Some(~AnyFailed /\ ~AnyTimedOut /\ ~JobErred)
              /\ hasError <=> JobErred
              /\ AllNotTestable => outputs = ActionOutputs("completed", Some(TRUE))
        /\ outputs.success = Some(TRUE) => outputs.status \in {"completed", "no-issues"}
        /\ outputs.status = "no-issues" <=>
              (issues = <<>> /\ testablePrs = <<>> /\ inputs.description = "")
        /\ runner = "description" =>
              /\ issues = <<>> /\ testablePrs = <<>>
              /\ outputs.success = result.success
              /\ outputs.status \in {"completed", "timeout", "error"}

\* The job of a testable issue timed out: status timeout, success false.
C40_Witness ==
    /\ TrackedOutputsSet
    /\ runner = "consolidated"
    /\ timedOutIssues # <<>>
    /\ outputs = ActionOutputs("timeout", Some(FALSE))

\* Every issue was not testable: completed and success true, without a job.
C40_AllNotTestableReached ==
    /\ TrackedOutputsSet
    /\ AllNotTestable
    /\ jobs = 0
    /\ outputs = ActionOutputs("completed", Some(TRUE))

\* Nothing to test and no description: success true with the status no-issues.
C40_NoIssuesReached == RunOutputsSet /\ outputs = ActionOutputs("no-issues", Some(TRUE))

\* The only PR was not testable and the description test failed: success false.
C40_DescriptionFailedReached ==
    /\ RunOutputsSet
    /\ runner = "description"
    /\ AllNotTestable
    /\ outputs.success = Some(FALSE)
====
